---- MODULE Spec2Model ----
(***************************************************************************)
(* A state-machine model of the Slackr browser client (frontend/src):      *)
(* session handling (main.js, helpers.js), the transport adapter apiCall   *)
(* (api.js), the channel list and message renderers (channel.js,           *)
(* channel_messages.js), message editing, the image viewer, the invite     *)
(* modal (channel_invite.js) and the profile modal (user_profile.js).  The *)
(* backend is the environment: every response to a request in flight is a  *)
(* nondeterministic choice.                                                *)
(*                                                                         *)
(* JavaScript strings that the code trims or compares character by         *)
(* character are sequences of one-character strings; texts that are only   *)
(* displayed are TLA+ strings.                                             *)
(***************************************************************************)
EXTENDS Integers, Sequences, FiniteSets, Bags, TLC

(***************************************************************************)
(* Bounds of the model.                                                    *)
(***************************************************************************)
\* requests that may be in flight at once in the session specification
MaxInFlight == 1
\* requests that may be in flight at once in the invite specification
MaxInviteInFlight == 2
\* closures of showInviteModal whose listeners may be attached at once
MaxListeners == 2
\* operations of the user in the mutation specification
MaxUserOps == 2
\* times the dashboard may be shown (initChannels run) in one page load
MaxDashboards == 2
\* handler closures of displayImageViewer that may be attached at once
MaxViewerListeners == 3
\* handler closures of showUserProfile that may be attached at once
MaxProfileListeners == 2

(***************************************************************************)
(* JavaScript values.                                                      *)
(***************************************************************************)
\* null, as returned by localStorage.getItem for a missing key
JsNull == <<"<null>">>
\* String(undefined), what localStorage.setItem stores for undefined
StrUndefined == <<"u", "n", "d", "e", "f", "i", "n", "e", "d">>
StrNull == <<"n", "u", "l", "l">>
Whitespace == {" "}

RECURSIVE TrimStart(_)
TrimStart(s) ==
    IF s # <<>> /\ Head(s) \in Whitespace THEN TrimStart(Tail(s)) ELSE s

RECURSIVE TrimEnd(_)
TrimEnd(s) ==
    IF s # <<>> /\ s[Len(s)] \in Whitespace
    THEN TrimEnd(SubSeq(s, 1, Len(s) - 1))
    ELSE s

\* String.prototype.trim
Trim(s) == TrimEnd(TrimStart(s))

(***************************************************************************)
(* State.                                                                  *)
(***************************************************************************)
VARIABLES
    pc,           \* "boot" before DOMContentLoaded has run init, then "ready"
    revision,     \* which revision of handleLogin/handleRegister is loaded
    ls,           \* localStorage: a function from the keys present to strings
    screen,       \* "unset" | "auth" | "dashboard": which container is shown
    errorPopup,   \* [text, shown]: #error-body text and #error-popup display
    noticePopup,  \* [text, shown]: #notice-body text and #notice-popup display
    net,          \* requests in flight: a bag, they are answered in any order
    allChannels,  \* channel.js: allChannels
    channelList,  \* children of #channel-list
    last,         \* the handler step taken last (history)
    currentChannelId,    \* channel.js: currentChannelId
    currentChannelData,  \* channel.js: currentChannelData
    channelDetails,      \* children of #channel-details-container
    messagesView,        \* children of #messages-container
    inviteModal,         \* #channel-invite-container, its list and listeners
    invitePromises,      \* the Promise.all of each invite submit not yet settled
    createChannelModal,  \* #create-channel-container, its form and the edit flags
    channelView,         \* "welcome" | "channel": which of the two is displayed
    messageInput,        \* #message-input and #message-image-input
    userOps,             \* the user's operations so far (mutation specification)
    sendListeners,       \* click listeners of initChannels on #message-send-button
    imageViewer,         \* #image-viewer-modal, channelImages, currentImageIndex
    profileModal         \* #profile-container and the listeners of its openings

channelVars == <<currentChannelId, currentChannelData, channelDetails, messagesView>>
inviteVars == <<inviteModal, invitePromises>>
mutationVars == <<createChannelModal, channelView, messageInput, userOps>>
listenerVars == <<sendListeners, imageViewer, profileModal>>
\* one more operation of the user, while the bound allows it
UserOp == userOps < MaxUserOps /\ userOps' = userOps + 1

KeyToken == "slackr-token"
KeyUserId == "slackr-user-id"

getItem(store, k) == IF k \in DOMAIN store THEN store[k] ELSE JsNull
setItem(store, k, v) ==
    [x \in DOMAIN store \cup {k} |-> IF x = k THEN v ELSE store[x]]
removeItem(store, k) == [x \in DOMAIN store \ {k} |-> store[x]]

(***************************************************************************)
(* helpers.js                                                              *)
(***************************************************************************)
Digit == <<"0", "1", "2", "3", "4", "5", "6", "7", "8", "9">>
\* String(n) for a one-digit number, as localStorage.setItem stores it
NumStr(n) == <<Digit[n + 1]>>
NaN == -1
\* the number-typed null that getUserId returns for a missing key
NullId == -2
\* parseInt of a stored string
ParseInt(s) ==
    IF Len(s) = 1 /\ \E d \in 0..9 : Digit[d + 1] = s[1]
    THEN CHOOSE d \in 0..9 : Digit[d + 1] = s[1]
    ELSE NaN

isValidToken(token) ==
    /\ token # JsNull
    /\ token # <<>>
    /\ token # StrNull
    /\ token # StrUndefined
    /\ Trim(token) # <<>>

setToken(store, token) == setItem(store, KeyToken, token)
\* getToken without its isValidToken check
getToken_Unvalidated(store) == getItem(store, KeyToken)
getToken(store) ==
    LET raw == getItem(store, KeyToken)
    IN  IF isValidToken(raw) THEN raw ELSE JsNull
clearToken(store) == removeItem(store, KeyToken)
setUserId(store, userId) == setItem(store, KeyUserId, userId)
getUserId(store) ==
    LET userId == getItem(store, KeyUserId)
    IN  IF userId # JsNull /\ userId # <<>> THEN ParseInt(userId) ELSE NullId
\* clearUserId that leaves the key in place
clearUserId_KeepsKey(store) == store
clearUserId(store) == removeItem(store, KeyUserId)

showError(message) == [text |-> message, shown |-> TRUE]
showNotice(message) == [text |-> message, shown |-> TRUE]

\* the popup after showError has been called with each of msgs in turn
showErrors(popup, msgs) ==
    IF msgs = <<>> THEN popup ELSE showError(msgs[Len(msgs)])

(***************************************************************************)
(* The backend: what a request in flight may be answered with.             *)
(***************************************************************************)
NoError == ""
NetworkFailure ==
    [failed |-> TRUE, status |-> 0, json |-> FALSE, error |-> NoError]
\* failed: fetch rejects; status: response.status; json: the body parses;
\* error: the body's error field (NoError when it has none)
Responses ==
    {NetworkFailure} \cup
    {r \in [failed : {FALSE}, status : {200, 403}, json : BOOLEAN,
            error : {"E1", NoError}] :
        ~r.json => r.error = NoError}
ResponseOk(resp) == ~resp.failed /\ resp.status \in 200..299

Tokens == {<<"A">>, <<"B">>}
\* the body of a login or register answer that carries no error field:
\* token and userId are undefined when the body has no such fields
SessionBodies ==
    {[token |-> <<"A">>, userId |-> NumStr(1)],
     [token |-> <<"B">>, userId |-> NumStr(2)]}
NoSessionBody == [token |-> StrUndefined, userId |-> StrUndefined]

(***************************************************************************)
(* api.js: apiCall                                                         *)
(***************************************************************************)
NetworkErrorText == "Network error. Please check your connection and try again."
HttpErrorText(status) ==
    CASE status = 400 -> "HTTP Error: 400"
      [] status = 403 -> "HTTP Error: 403"
      [] OTHER -> "HTTP Error"
HttpReason(status) ==
    CASE status = 400 -> "HTTP 400"
      [] status = 403 -> "HTTP 403"
      [] OTHER -> "HTTP"

\* a request as apiCall issues it: the Authorization header is attached when
\* authentication is required and getToken returns a token (auth = JsNull:
\* no header)
apiRequest(store, who, method, path, requireAuth) ==
    [who |-> who, method |-> method, path |-> path,
     auth |-> IF requireAuth /\ getToken(store) # JsNull
              THEN getToken(store) ELSE JsNull,
     args |-> <<>>, text |-> JsNull, tag |-> 0]

\* the first then, for a response that is not ok: the inner catch is chained
\* after the inner then, so it also handles the rejection the inner then
\* returns
apiCallNotOk(resp) ==
    IF resp.json
    THEN [shown |-> <<IF resp.error # NoError THEN resp.error
                      ELSE HttpErrorText(resp.status),
                      HttpErrorText(resp.status)>>,
          rejected |-> TRUE, value |-> HttpReason(resp.status)]
    ELSE [shown |-> <<HttpErrorText(resp.status)>>,
          rejected |-> TRUE, value |-> HttpReason(resp.status)]

\* the second then, for the parsed body of an ok response
apiCallData(resp) ==
    IF resp.error # NoError
    THEN [shown |-> <<resp.error>>, rejected |-> TRUE, value |-> resp.error]
    ELSE [shown |-> <<>>, rejected |-> FALSE, value |-> "data"]

\* the calls of showError apiCall makes for a response, in order, and how
\* the promise it returns settles
apiCall(resp) ==
    IF resp.failed
    THEN \* fetch rejects with a TypeError: the outer catch
         [shown |-> <<NetworkErrorText>>, rejected |-> TRUE,
          value |-> "Network error"]
    ELSE IF ~ResponseOk(resp)
    THEN apiCallNotOk(resp)
    ELSE IF ~resp.json
    THEN \* response.json() rejects with a SyntaxError: the outer catch
         \* re-rejects it without showError
         [shown |-> <<>>, rejected |-> TRUE, value |-> "SyntaxError"]
    ELSE apiCallData(resp)

(***************************************************************************)
(* channel.js: the channel list                                            *)
(***************************************************************************)
NoChannel == 0
ChannelIds == {1, 2, 3}
\* a channel as GET /channel lists it; user 1 created it and is its member
Channel(id, private) ==
    [id |-> id,
     name |-> CASE id = 1 -> "general" [] id = 2 -> "secret" [] OTHER -> "random",
     private |-> private, creator |-> 1, members |-> {1}]
Channels == {Channel(id, private) : id \in ChannelIds, private \in BOOLEAN}

\* the lists GET /channel may answer with: no channel id occurs twice
ChannelLists ==
    UNION {{list \in [1..n -> Channels] :
                \A i, j \in 1..n : i # j => list[i].id # list[j].id} :
           n \in 0..Cardinality(ChannelIds)}

createChannelElement(channel, isPrivate, current) ==
    [kind |-> "channel-container", text |-> channel.name, id |-> channel.id,
     lock |-> isPrivate, active |-> (current = channel.id)]

channelSectionHeader(text) ==
    [kind |-> "channel-section-header", text |-> text, id |-> NoChannel,
     lock |-> FALSE, active |-> FALSE]

emptyMessage(text) ==
    [kind |-> "empty-message", text |-> text, id |-> NoChannel,
     lock |-> FALSE, active |-> FALSE]

\* renderChannelList with a public filter that lets every channel through
renderChannelList_PublicUnfiltered(channels, current) ==
    LET privateChannels == SelectSeq(channels, LAMBDA ch : ch.private)
    IN  (IF Len(channels) > 0
         THEN <<channelSectionHeader("Public Channels")>> \o
              [i \in 1..Len(channels) |->
                  createChannelElement(channels[i], FALSE, current)]
         ELSE <<emptyMessage("No channels available. Create one to get started!")>>)
        \o
        (IF Len(privateChannels) > 0
         THEN <<channelSectionHeader("Private Channels")>> \o
              [i \in 1..Len(privateChannels) |->
                  createChannelElement(privateChannels[i], TRUE, current)]
         ELSE <<>>)

\* the children of #channel-list after renderChannelList(channels)
renderChannelList(channels, current) ==
    LET publicChannels == SelectSeq(channels, LAMBDA ch : ~ch.private)
        privateChannels == SelectSeq(channels, LAMBDA ch : ch.private)
        publicSection ==
            IF Len(publicChannels) > 0
            THEN <<channelSectionHeader("Public Channels")>> \o
                 [i \in 1..Len(publicChannels) |->
                     createChannelElement(publicChannels[i], FALSE, current)]
            ELSE <<>>
        privateSection ==
            IF Len(privateChannels) > 0
            THEN <<channelSectionHeader("Private Channels")>> \o
                 [i \in 1..Len(privateChannels) |->
                     createChannelElement(privateChannels[i], TRUE, current)]
            ELSE <<>>
        emptySection ==
            IF Len(channels) = 0
            THEN <<emptyMessage("No channels available. Create one to get started!")>>
            ELSE <<>>
    IN  publicSection \o privateSection \o emptySection

(***************************************************************************)
(* main.js: screens, login, register, logout, startup                      *)
(***************************************************************************)
NoResp == [failed |-> FALSE, status |-> 0, json |-> FALSE, error |-> NoError]
\* the history record of one handler step: the handler, the Authorization
\* token of the request it consumed and the response it consumed (JsNull and
\* NoResp for a step that consumes none)
Step(op, auth, resp) == [op |-> op, auth |-> auth, resp |-> resp, data |-> <<>>]

\* the history record of a step of a handler that changes a channel or a message: data is the number of
\* showError calls of the step, its outcome ("invalid": the validation
\* refused the input, "cancelled", "rejected": the image conversion
\* rejected, "issued": the request was sent, "failed": the promise rejected,
\* "threw": the then callback threw, "done"), the channel it is about and
\* the text the user entered
Report(op, auth, resp, shown, outcome, channelId, text) ==
    [Step(op, auth, resp) EXCEPT !.data = <<Len(shown), outcome, channelId, text>>]

HiddenPopup == [text |-> "", shown |-> FALSE]

CanIssue == BagCardinality(net) < MaxInFlight
Issue(pending, request) == pending (+) SetToBag({request})
Settle(pending, request) == pending (-) SetToBag({request})

\* the page under the modals takes clicks: a displayed modal covers it
PageClickable ==
    /\ screen = "dashboard"
    /\ ~createChannelModal.shown
    /\ ~inviteModal.shown
    /\ ~imageViewer.shown
    /\ ~profileModal.shown

fetchRequest(who, method, path, auth) ==
    [who |-> who, method |-> method, path |-> path, auth |-> auth,
     args |-> <<>>, text |-> JsNull, tag |-> 0]

\* loadChannels: getChannels() is apiCall('/channel', 'GET')
loadChannelsRequest(store) == apiRequest(store, "loadChannels", "GET", "/channel", TRUE)

\* showAuthScreen
showAuthScreen == screen' = "auth"

\* showDashboard, with the initChannels it calls: the dashboard is shown and
\* loadChannels issues GET /channel
\* (channel.js: a further click listener on the send button and a further
\* keypress listener on the message input, both arrow functions)
showDashboard(pending, store) ==
    /\ screen' = "dashboard"
    /\ net' = Issue(pending, loadChannelsRequest(store))
    /\ sendListeners' = IF revision = 1 THEN sendListeners + 1 ELSE sendListeners

AuthVisible == pc = "ready" /\ screen \in {"unset", "auth"}
DashboardVisible == pc = "ready" /\ screen \in {"unset", "dashboard"}

Emails == {<<" ">>, <<"a">>}
Names == {<<>>, <<"n">>}
Passwords == {<<>>, <<"p">>, <<"q">>}

\* the message handleLogin's validation shows, NoError when the input passes
loginValidation(email, password) ==
    IF Trim(email) = <<>> THEN "Email is required"
    ELSE IF password = <<>> THEN "Password is required"
    ELSE NoError

\* handleLogin, up to the fetch
handleLogin(email, password) ==
    /\ AuthVisible
    /\ sendListeners < MaxDashboards
    /\ LET problem == loginValidation(email, password)
       IN  IF problem # NoError
           THEN /\ errorPopup' = showError(problem)
                /\ net' = net
                /\ last' = Step("handleLogin", JsNull, NoResp)
           ELSE /\ CanIssue
                /\ errorPopup' = errorPopup
                /\ net' = Issue(net, fetchRequest("handleLogin", "POST",
                                                   "/auth/login", JsNull))
                /\ last' = Step("handleLogin", JsNull, NoResp)
    /\ UNCHANGED <<pc, revision, ls, screen, noticePopup,
                   allChannels, channelList,
                   channelVars, inviteVars,
                   mutationVars, listenerVars>>

\* the body a login or register answer without an error field may carry
sessionBodies(resp) ==
    IF resp.status = 200 THEN SessionBodies ELSE {NoSessionBody}

\* the then callback without its check of data.error
storesSession_IgnoresError(resp) == ~resp.failed /\ resp.json

\* whether the then callback of handleLogin/handleRegister stores the session:
\* the body parsed and has no (truthy) error field
storesSession(resp) == ~resp.failed /\ resp.json /\ resp.error = NoError

\* the showError calls of a login/register answer that stores no session
\* (first revision: the catch only logs; second revision: the catch shows)
sessionErrors(rev, resp, failText) ==
    IF ~resp.failed /\ resp.json
    THEN <<resp.error>>
    ELSE IF rev = 1 THEN <<>> ELSE <<failText>>

\* the promise chain of handleLogin/handleRegister, once the fetch settles
sessionSettle(r, resp, who, failText, noticeText) ==
    /\ BagIn(r, net)
    /\ r.who = who
    /\ IF storesSession(resp)
       THEN \E body \in sessionBodies(resp) :
              /\ ls' = setUserId(setToken(ls, body.token), body.userId)
              /\ showDashboard(Settle(net, r), ls')
              /\ noticePopup' = IF revision = 1 THEN showNotice(noticeText)
                                ELSE noticePopup
              /\ errorPopup' = errorPopup
              /\ last' = Step(who \o ".settle", r.auth, resp)
       ELSE LET errors == sessionErrors(revision, resp, failText)
            IN  /\ errorPopup' = showErrors(errorPopup, errors)
                /\ net' = Settle(net, r)
                /\ last' = Step(who \o ".settle", r.auth, resp)
                /\ UNCHANGED <<ls, screen, noticePopup, sendListeners>>
    /\ UNCHANGED <<pc, revision, allChannels, channelList,
                   channelVars, inviteVars,
                   mutationVars, imageViewer, profileModal>>

handleLoginSettle(r, resp) ==
    sessionSettle(r, resp, "handleLogin",
                  "Failed to login. Please try again.", "Login successful!")

\* the validation without its comparison of the two password fields
registerValidation_NoMatchCheck(email, name, password, confirmPassword) ==
    IF Trim(email) = <<>> THEN "Email is required"
    ELSE IF Trim(name) = <<>> THEN "Name is required"
    ELSE IF password = <<>> THEN "Password is required"
    ELSE IF confirmPassword = <<>> THEN "Password confirmation is required"
    ELSE NoError

\* the message handleRegister's validation shows, NoError when the input passes
registerValidation(email, name, password, confirmPassword) ==
    IF Trim(email) = <<>> THEN "Email is required"
    ELSE IF Trim(name) = <<>> THEN "Name is required"
    ELSE IF password = <<>> THEN "Password is required"
    ELSE IF confirmPassword = <<>> THEN "Password confirmation is required"
    ELSE IF password # confirmPassword THEN "Passwords do not match!"
    ELSE NoError

\* handleRegister, up to the fetch
handleRegister(email, name, password, confirmPassword) ==
    /\ AuthVisible
    /\ sendListeners < MaxDashboards
    /\ LET problem == registerValidation(email, name, password, confirmPassword)
       IN  IF problem # NoError
           THEN /\ errorPopup' = showError(problem)
                /\ net' = net
           ELSE /\ CanIssue
                /\ errorPopup' = errorPopup
                /\ net' = Issue(net, fetchRequest("handleRegister", "POST",
                                                   "/auth/register", JsNull))
    /\ last' = [Step("handleRegister", JsNull, NoResp)
                   EXCEPT !.data = <<password, confirmPassword>>]
    /\ UNCHANGED <<pc, revision, ls, screen, noticePopup,
                   allChannels, channelList,
                   channelVars, inviteVars,
                   mutationVars, listenerVars>>

handleRegisterSettle(r, resp) ==
    sessionSettle(r, resp, "handleRegister",
                  "Failed to register. Please try again.", "Registered successfully!")

\* handleLogout, up to the fetch: the header is `Bearer ${token}`, so a null
\* token is sent as the string null
handleLogout ==
    /\ DashboardVisible
    /\ CanIssue
    /\ LET token == getToken(ls)
       IN  net' = Issue(net, fetchRequest("handleLogout", "POST", "/auth/logout",
                                           IF token = JsNull THEN StrNull ELSE token))
    /\ last' = Step("handleLogout", JsNull, NoResp)
    /\ UNCHANGED <<pc, revision, ls, screen, errorPopup, noticePopup,
                   allChannels, channelList,
                   channelVars, inviteVars,
                   mutationVars, listenerVars>>

\* the promise chain of handleLogout with a catch callback that only logs
handleLogoutSettle_CatchOnlyLogs(r, resp) ==
    /\ BagIn(r, net)
    /\ r.who = "handleLogout"
    /\ IF ~resp.failed /\ resp.json
       THEN /\ ls' = clearUserId(clearToken(ls))
            /\ showAuthScreen
       ELSE UNCHANGED <<ls, screen>>
    /\ net' = Settle(net, r)
    /\ last' = Step("handleLogout.settle", r.auth, resp)
    /\ UNCHANGED <<pc, revision, errorPopup, noticePopup,
                   allChannels, channelList,
                   channelVars, inviteVars,
                   mutationVars, listenerVars>>

\* the promise chain of handleLogout: the then callback runs when the body
\* parses, the catch callback when fetch or response.json() rejects
handleLogoutSettle(r, resp) ==
    /\ BagIn(r, net)
    /\ r.who = "handleLogout"
    /\ IF ~resp.failed /\ resp.json
       THEN /\ ls' = clearUserId(clearToken(ls))
            /\ showAuthScreen
       ELSE /\ ls' = clearUserId(clearToken(ls))
            /\ showAuthScreen
    /\ net' = Settle(net, r)
    /\ last' = Step("handleLogout.settle", r.auth, resp)
    /\ UNCHANGED <<pc, revision, errorPopup, noticePopup,
                   allChannels, channelList,
                   channelVars, inviteVars,
                   mutationVars, listenerVars>>

\* init, up to the fetch (the listeners are registered first)
init ==
    /\ pc = "boot"
    /\ pc' = "ready"
    /\ LET token == getToken(ls)
       IN  IF isValidToken(token)
           THEN /\ net' = Issue(net, fetchRequest("init", "GET", "/channel", token))
                /\ last' = Step("init", JsNull, NoResp)
                /\ UNCHANGED <<ls, screen>>
           ELSE /\ ls' = clearUserId(clearToken(ls))
                /\ showAuthScreen
                /\ net' = net
                /\ last' = Step("init", JsNull, NoResp)
    /\ UNCHANGED <<revision, errorPopup, noticePopup,
                   allChannels, channelList,
                   channelVars, inviteVars,
                   mutationVars, listenerVars>>

\* the then callback of init without its check of response.ok
initAccepts_AnyResponse(resp) == ~resp.failed

\* whether init's then callback shows the dashboard
initAccepts(resp) == ResponseOk(resp)

\* the promise chain of init, once the validation fetch settles
initSettle(r, resp) ==
    /\ BagIn(r, net)
    /\ r.who = "init"
    /\ IF initAccepts(resp)
       THEN /\ showDashboard(Settle(net, r), ls)
            /\ last' = Step("init.settle", r.auth, resp)
            /\ ls' = ls
       ELSE /\ ls' = clearUserId(clearToken(ls))
            /\ showAuthScreen
            /\ net' = Settle(net, r)
            /\ last' = Step("init.settle", r.auth, resp)
            /\ UNCHANGED sendListeners
    /\ UNCHANGED <<pc, revision, errorPopup, noticePopup, allChannels, channelList,
                   channelVars, inviteVars,
                   mutationVars, imageViewer, profileModal>>

\* the channel lists the backend answers GET /channel with in the session
\* specification
SessionChannelLists == {<<Channel(1, FALSE), Channel(2, TRUE)>>}

\* currentChannelData and #channel-details-container before a channel is
\* selected
NoChannelData ==
    [id |-> NoChannel, name |-> "", private |-> FALSE, creator |-> 0,
     members |-> {}]
NoDetails ==
    [id |-> NoChannel, name |-> "", private |-> FALSE, buttons |-> {},
     info |-> FALSE]
\* #create-channel-container as hideCreateChannelModal leaves it in
\* channel.js: hidden, with the edit flags reset.  form and editId are the
\* form of the earlier revision of the module (0: the form whose submit
\* listener is handleCreateChannel)
ClosedCreateModal ==
    [shown |-> FALSE, isEditMode |-> FALSE, editingChannelId |-> NoChannel,
     form |-> 0, editId |-> NoChannel]
\* #image-viewer-modal before showImageViewer has run: channelImages = [],
\* currentImageIndex = 0; listeners counts the closures of displayImageViewer
\* whose four handlers are attached
ClosedImageViewer == [shown |-> FALSE, images |-> <<>>, index |-> 0, listeners |-> 0]
\* #profile-container before showUserProfile has run; listeners counts the
\* closures of showUserProfile whose two handlers are attached
ClosedProfileModal == [shown |-> FALSE, listeners |-> 0]
\* #message-input and #message-image-input with nothing entered; file is
\* the type of the chosen file
EmptyMessageInput == [text |-> <<>>, file |-> "none"]
\* #channel-invite-container before showInviteModal has run
ClosedInviteModal ==
    [shown |-> FALSE, disabled |-> FALSE, items |-> <<>>, listeners |-> {}]

\* loadChannels, once the apiCall of getChannels settles
loadChannelsSettle(r, resp, channels) ==
    /\ BagIn(r, net)
    /\ r.who = "loadChannels"
    /\ LET out == apiCall(resp)
       IN  /\ errorPopup' = showErrors(errorPopup, out.shown)
           /\ last' = Step("loadChannels.settle", r.auth, resp)
           /\ IF out.rejected
              THEN UNCHANGED <<allChannels, channelList>>
              ELSE /\ allChannels' = channels
                   /\ channelList' = renderChannelList(channels, currentChannelId)
    /\ net' = Settle(net, r)
    /\ UNCHANGED <<pc, revision, ls, screen, noticePopup,
                   channelVars, inviteVars,
                   mutationVars, listenerVars>>

(***************************************************************************)
(* channel.js: channel details                                             *)
(***************************************************************************)
\* a request of an api.js accessor that takes ids and a text
apiRequestWith(store, who, method, path, args, text, tag) ==
    [apiRequest(store, who, method, path, TRUE)
        EXCEPT !.args = args, !.text = text, !.tag = tag]

\* getChannelDetails(channelId) is apiCall(`/channel/${channelId}`, 'GET')
getChannelDetailsRequest(store, who, channelId, tag) ==
    apiRequestWith(store, who, "GET", "/channel/:id", <<channelId>>, JsNull, tag)

\* getMessages(channelId, 0) as loadMessages calls it
loadMessagesRequest(store, channelId) ==
    apiRequestWith(store, "loadMessages", "GET", "/channel/:id/message?start=0",
                   <<channelId>>, JsNull, 0)

\* the bodies GET /channel/:id answers with: the channel without its id
ChannelBodies(channelId) ==
    {[Channel(channelId, FALSE) EXCEPT !.id = NoChannel, !.members = members] :
        members \in {{1}, {1, 2, 3}}}

\* what renderChannelDetails leaves in #channel-details-container (the
\* creator name it fetches with getUserProfile is not part of the model)
renderChannelDetails(channelData, userId) ==
    LET isMember == userId \in channelData.members
        isCreator == channelData.creator = userId
    IN  [id |-> channelData.id, name |-> channelData.name,
         private |-> channelData.private,
         buttons |-> IF isMember
                     THEN {"edit", "pinned", "invite"} \cup
                          (IF isCreator THEN {} ELSE {"leave"})
                     ELSE {"join"},
         info |-> isMember]

\* loadChannelDetails without its look at allChannels: the backend is asked
\* for every channel
loadChannelDetails_AlwaysAsks(store, channels, channelId, data, details, view) ==
    [shown |-> <<>>,
     requests |-> SetToBag({getChannelDetailsRequest(
                      store, "loadChannelDetails", channelId, 0)}),
     data |-> data, details |-> details, view |-> view]

\* loadChannelDetails(channelId): the showError calls it makes, the requests
\* it issues and what it leaves in currentChannelData, the details
\* container and the messages container
loadChannelDetails(store, channels, channelId, data, details, view) ==
    LET userId == getUserId(store)
        found == {i \in DOMAIN channels : channels[i].id = channelId}
        channelBasicInfo == channels[CHOOSE i \in found : \A j \in found : i <= j]
    IN  IF found = {}
        THEN [shown |-> <<"Channel not found">>, requests |-> EmptyBag,
              data |-> data, details |-> details, view |-> view]
        ELSE IF userId \in channelBasicInfo.members
        THEN [shown |-> <<>>,
              requests |-> SetToBag({getChannelDetailsRequest(
                               store, "loadChannelDetails", channelId, 0)}),
              data |-> data, details |-> details, view |-> view]
        ELSE [shown |-> <<>>, requests |-> EmptyBag,
              data |-> channelBasicInfo,
              details |-> renderChannelDetails(channelBasicInfo, userId),
              view |-> <<>>]

\* loadChannelDetails, once the apiCall of getChannelDetails settles
loadChannelDetailsSettle(r, resp, body) ==
    /\ BagIn(r, net)
    /\ r.who = "loadChannelDetails"
    /\ LET out == apiCall(resp)
           data == [body EXCEPT !.id = r.args[1]]
       IN  /\ errorPopup' = showErrors(errorPopup, out.shown)
           /\ last' = Step("loadChannelDetails.settle", r.auth, resp)
           /\ IF out.rejected
              THEN /\ net' = Settle(net, r)
                   /\ UNCHANGED <<currentChannelData, channelDetails>>
              ELSE /\ currentChannelData' = data
                   /\ channelDetails' = renderChannelDetails(data, getUserId(ls))
                   /\ net' = Issue(Settle(net, r),
                                   loadMessagesRequest(ls, r.args[1]))
    /\ UNCHANGED <<pc, revision, ls, screen, noticePopup, allChannels,
                   channelList, currentChannelId, messagesView,
                   inviteVars,
                   mutationVars, listenerVars>>

(***************************************************************************)
(* channel_messages.js: the message list and editing                       *)
(***************************************************************************)
MessageIds == {1, 2, 3}
\* the messages the backend may hold: users 1 and 2 sent them, and their
\* contents are what any client of the backend sent, trimmed or not; reacts
\* is the set of users who reacted (with the one emoji of the model)
Messages ==
    {m \in [id : MessageIds, sender : {1, 2},
            message : {<<"a">>, <<" ", "a">>, <<"b">>}, pinned : BOOLEAN,
            reacts : {{}, {1}}] :
        /\ m.sender = (IF m.id = 3 THEN 2 ELSE 1)
        /\ m.reacts = (IF m.id = 3 THEN {1} ELSE {})
        /\ m.message \in (IF m.id = 1 THEN {<<"a">>, <<" ", "a">>} ELSE {<<"b">>})}

\* the lists GET /channel/:id/message may answer with: newest first, and
\* a newer message has the larger id
MessageLists ==
    UNION {{list \in [1..n -> Messages] :
                \A i, j \in 1..n : i < j => list[i].id > list[j].id} :
           n \in 0..Cardinality(MessageIds)}

NoMessage ==
    [id |-> 0, sender |-> 0, message |-> <<>>, pinned |-> FALSE, reacts |-> {}]

\* [...messages] without the reverse()
Reverse_BackendOrder(s) == s

\* [...messages].reverse()
Reverse(s) == [i \in 1..Len(s) |-> s[Len(s) + 1 - i]]

\* createMessageActions: the buttons of a message
createMessageActions(msg, currentUserId) ==
    (IF msg.sender = currentUserId THEN {"Edit", "Delete"} ELSE {}) \cup
    {IF msg.pinned THEN "Unpin" ELSE "Pin"} \cup {"React"}

\* createMessageElement: a .message-container with the message and the
\* channel its listeners close over (sender name and photo, which it
\* fetches with getUserProfile, are not part of the model)
createMessageElement(msg, currentUserId, channelId, isPinnedSection) ==
    [kind |-> "message-container", count |-> 0, children |-> <<>>,
     msg |-> msg, channelId |-> channelId, pinnedClass |-> isPinnedSection,
     buttons |-> createMessageActions(msg, currentUserId)]

\* the header text is `Pinned Messages (${count})`
pinnedMessagesSection(count, children) ==
    [kind |-> "pinned-messages-section", count |-> count,
     children |-> children, msg |-> NoMessage, channelId |-> NoChannel,
     pinnedClass |-> FALSE, buttons |-> {}]

plainNode(kind) ==
    [kind |-> kind, count |-> 0, children |-> <<>>, msg |-> NoMessage,
     channelId |-> NoChannel, pinnedClass |-> FALSE, buttons |-> {}]

\* renderMessages without the pinned section: every message is rendered in
\* the regular section
renderMessages_NoPinnedSection(messages, channelId, currentUserId) ==
    IF Len(messages) = 0
    THEN <<plainNode("empty-message")>>
    ELSE [i \in 1..Len(messages) |->
             createMessageElement(Reverse(messages)[i], currentUserId,
                                  channelId, FALSE)]

\* the children of #messages-container after renderMessages(messages,
\* channelId)
renderMessages(messages, channelId, currentUserId) ==
    IF Len(messages) = 0
    THEN <<plainNode("empty-message")>>
    ELSE LET reversedMessages == Reverse(messages)
             pinnedMessages == SelectSeq(reversedMessages, LAMBDA msg : msg.pinned)
             regularMessages == SelectSeq(reversedMessages, LAMBDA msg : ~msg.pinned)
             pinnedPart ==
                 IF Len(pinnedMessages) > 0
                 THEN <<pinnedMessagesSection(
                            Len(pinnedMessages),
                            [i \in 1..Len(pinnedMessages) |->
                                createMessageElement(pinnedMessages[i],
                                    currentUserId, channelId, TRUE)]),
                        plainNode("pinned-messages-separator")>>
                 ELSE <<>>
         IN  pinnedPart \o
             [i \in 1..Len(regularMessages) |->
                 createMessageElement(regularMessages[i], currentUserId,
                                      channelId, FALSE)]

\* loadMessages, once the apiCall of getMessages settles
loadMessagesSettle(r, resp, messages) ==
    /\ BagIn(r, net)
    /\ r.who = "loadMessages"
    /\ LET out == apiCall(resp)
       IN  /\ errorPopup' = showErrors(errorPopup, out.shown)
           /\ IF out.rejected
              THEN /\ messagesView' = messagesView
                   /\ last' = Step("loadMessages.settle", r.auth, resp)
              ELSE /\ messagesView' =
                          renderMessages(messages, r.args[1], getUserId(ls))
                   /\ last' = [Step("loadMessages.settle", r.auth, resp)
                                  EXCEPT !.data = messages]
    /\ net' = Settle(net, r)
    /\ UNCHANGED <<pc, revision, ls, screen, noticePopup, allChannels,
                   channelList, currentChannelId, currentChannelData,
                   channelDetails,
                   inviteVars,
                   mutationVars, listenerVars>>

\* the .message-container elements in #messages-container
MessageElements(view) ==
    {view[i] : i \in {j \in DOMAIN view : view[j].kind = "message-container"}}
    \cup UNION {{view[i].children[k] : k \in DOMAIN view[i].children} :
                   i \in DOMAIN view}

\* editMessage(channelId, messageId, message)
editMessageRequest(store, channelId, messageId, message) ==
    apiRequestWith(store, "handleEditMessage", "PUT",
                   "/channel/:id/message/:id", <<channelId, messageId>>,
                   message, 0)

\* what handleEditMessage does with the answer to its prompt (JsNull: the
\* prompt was cancelled): "cancel", a message it shows, or "send"
editValidation(msg, newMessage) ==
    IF newMessage = JsNull THEN "cancel"
    ELSE IF Trim(newMessage) = <<>> THEN "Message cannot be empty"
    ELSE IF Trim(newMessage) = msg.message
    THEN "Message must be different from the existing message"
    ELSE "send"

\* handleEditMessage(msg, channelId), the click listener of the Edit button
\* of an element, up to the request
handleEditMessage(el, newMessage) ==
    /\ PageClickable
    /\ el \in MessageElements(messagesView)
    /\ "Edit" \in el.buttons
    /\ LET verdict == editValidation(el.msg, newMessage)
       IN  /\ last' = [Step("handleEditMessage", JsNull, NoResp)
                          EXCEPT !.data = <<el.msg.message, newMessage>>]
           /\ IF verdict = "cancel"
              THEN UNCHANGED <<errorPopup, net>>
              ELSE IF verdict = "send"
              THEN /\ CanIssue
                   /\ errorPopup' = errorPopup
                   /\ net' = Issue(net, editMessageRequest(
                                 ls, el.channelId, el.msg.id, Trim(newMessage)))
              ELSE /\ errorPopup' = showError(verdict)
                   /\ net' = net
    /\ UNCHANGED <<pc, revision, ls, screen, noticePopup, allChannels,
                   channelList, channelVars,
                   inviteVars,
                   mutationVars, listenerVars>>

\* handleEditMessage, once the apiCall of editMessage settles
handleEditMessageSettle(r, resp) ==
    /\ BagIn(r, net)
    /\ r.who = "handleEditMessage"
    /\ LET out == apiCall(resp)
       IN  /\ errorPopup' = showErrors(errorPopup, out.shown)
           /\ last' = Report("handleEditMessage.settle", r.auth, resp, out.shown,
                             IF out.rejected THEN "failed" ELSE "done",
                             r.args[1], <<>>)
           /\ IF out.rejected
              THEN /\ net' = Settle(net, r)
                   /\ noticePopup' = noticePopup
              ELSE /\ net' = Issue(Settle(net, r),
                                   loadMessagesRequest(ls, r.args[1]))
                   /\ noticePopup' = showNotice("Message edited")
    /\ UNCHANGED <<pc, revision, ls, screen, allChannels, channelList,
                   channelVars,
                   inviteVars,
                   mutationVars, listenerVars>>

\* sendMessage(channelId, message, image), deleteMessage(channelId,
\* messageId), pinMessage, unpinMessage, reactMessage and unreactMessage
\* (channelId, messageId[, react]); the emoji is not part of the model.  The
\* image of a send is the second of its args (NoImage: null)
sendMessageRequest(store, channelId, message, image) ==
    apiRequestWith(store, "handleSendMessage", "POST", "/channel/:id/message",
                   <<channelId, image>>, message, 0)
messageActionRequest(store, who, method, action, channelId, messageId) ==
    apiRequestWith(store, who, method, "/channel/:id/message/:id" \o action,
                   <<channelId, messageId>>, JsNull, 0)

\* the click listeners of a message element that change the message:
\* handleDeleteMessage (confirmed: the answer to its confirm), handlePinMessage
\* on the Pin or Unpin button, handleReact from the emoji of the menu the
\* React button opens or from a reaction the user has not given, handleUnreact
\* from a reaction the user has given
messageButtonClick(button, el, confirmed) ==
    /\ UserOp
    /\ PageClickable
    /\ el \in MessageElements(messagesView)
    /\ CASE button = "Unreact" -> getUserId(ls) \in el.msg.reacts
         [] OTHER -> button \in el.buttons
    /\ LET who == CASE button = "Delete" -> "handleDeleteMessage"
                    [] button \in {"Pin", "Unpin"} -> "handlePinMessage"
                    [] button = "React" -> "handleReact"
                    [] button = "Unreact" -> "handleUnreact"
           request ==
               CASE button = "Delete" ->
                      messageActionRequest(ls, who, "DELETE", "",
                                           el.channelId, el.msg.id)
                 [] button \in {"Pin", "Unpin"} ->
                      messageActionRequest(ls, who, "POST",
                                           IF el.msg.pinned THEN "/unpin" ELSE "/pin",
                                           el.channelId, el.msg.id)
                 [] button = "React" ->
                      messageActionRequest(ls, who, "POST", "/react",
                                           el.channelId, el.msg.id)
                 [] button = "Unreact" ->
                      messageActionRequest(ls, who, "POST", "/unreact",
                                           el.channelId, el.msg.id)
       IN  IF button = "Delete" /\ ~confirmed
           THEN /\ net' = net
                /\ last' = Report(who, JsNull, NoResp, <<>>, "cancelled",
                                  el.channelId, <<>>)
           ELSE /\ CanIssue
                /\ net' = Issue(net, request)
                /\ last' = Report(who, JsNull, NoResp, <<>>, "issued",
                                  el.channelId, <<>>)
    /\ UNCHANGED <<pc, revision, ls, screen, errorPopup, noticePopup,
                   allChannels, channelList, channelVars, inviteVars,
                   createChannelModal, channelView,
                   messageInput, listenerVars>>

\* the file types fileToDataUrl converts
ValidFileTypes == {"image/jpeg", "image/png", "image/jpg"}
\* the image of a send without a file (null)
NoImage == 0
\* reader.result for a file of a valid type: the data URL, which begins
\* with the type of the file (a number stands for each such URL)
DataUrl(file) ==
    LET types == <<"image/jpeg", "image/png", "image/jpg">>
    IN  CHOOSE i \in DOMAIN types : types[i] = file

\* fileToDataUrl that converts a file of any type
fileToDataUrl_AnyType(file, readable) ==
    [rejected |-> FALSE,
     url |-> IF file \in ValidFileTypes THEN DataUrl(file) ELSE 1]
\* fileToDataUrl(file): the promise rejects for a file of another type and
\* when the FileReader reports an error (readable: whether it loads)
fileToDataUrl(file, readable) ==
    IF file \in ValidFileTypes /\ readable
    THEN [rejected |-> FALSE, url |-> DataUrl(file)]
    ELSE [rejected |-> TRUE, url |-> NoImage]

\* one click on the send button (or one Enter in the message input) of
\* channel.js, up to the requests, with text in #message-input and a file of
\* type file chosen ("none": no file): every listener that the runs of
\* initChannels have added calls handleSendMessage(currentChannelId), one
\* after the other.  When fileToDataUrl rejects, the catch callback only logs
handleSendMessage(text, file, readable) ==
    /\ UserOp
    /\ revision = 1
    /\ PageClickable
    /\ sendListeners > 0
    /\ channelView = "channel"
    /\ messageInput' = [text |-> text, file |-> file]
    /\ LET messageText == Trim(text)
           hasText == Len(messageText) > 0
           hasImage == file # "none"
           imagePromise == IF hasImage THEN fileToDataUrl(file, readable)
                           ELSE [rejected |-> FALSE, url |-> NoImage]
       IN  IF ~hasText /\ ~hasImage
           THEN /\ errorPopup' = showError("Message cannot be empty")
                /\ net' = net
                /\ last' = Report("handleSendMessage", JsNull, NoResp,
                                  [i \in 1..sendListeners |->
                                       "Message cannot be empty"],
                                  "invalid", currentChannelId, text)
           ELSE IF imagePromise.rejected
           THEN /\ errorPopup' = errorPopup
                /\ net' = net
                /\ last' = Report("handleSendMessage", JsNull, NoResp, <<>>,
                                  "rejected", currentChannelId, text)
           ELSE /\ CanIssue
                /\ errorPopup' = errorPopup
                /\ net' = net (+)
                       [r \in {sendMessageRequest(
                                   ls, currentChannelId,
                                   IF hasText THEN messageText ELSE JsNull,
                                   imagePromise.url)} |-> sendListeners]
                /\ last' = Report("handleSendMessage", JsNull, NoResp, <<>>,
                                  "issued", currentChannelId, text)
    /\ UNCHANGED <<pc, revision, ls, screen, noticePopup, allChannels,
                   channelList, channelVars, inviteVars, createChannelModal,
                   channelView, listenerVars>>

MessageMutations ==
    {"handleSendMessage", "handleDeleteMessage", "handlePinMessage",
     "handleReact", "handleUnreact"}

\* the notice the then callback of a message mutation shows, NoError for none
mutationNotice(r) ==
    CASE r.who = "handleDeleteMessage" -> "Message deleted"
      [] r.who = "handlePinMessage" ->
             IF r.path = "/channel/:id/message/:id/unpin"
             THEN "Message unpinned" ELSE "Message pinned"
      [] OTHER -> NoError

\* a message mutation without the loadMessages of its then callback
messageMutationSettle_NoReload(r, resp) ==
    /\ BagIn(r, net)
    /\ r.who \in MessageMutations
    /\ LET out == apiCall(resp)
       IN  /\ errorPopup' = showErrors(errorPopup, out.shown)
           /\ last' = Report(r.who \o ".settle", r.auth, resp, out.shown,
                             IF out.rejected THEN "failed" ELSE "done",
                             r.args[1], <<>>)
           /\ net' = Settle(net, r)
           /\ UNCHANGED <<noticePopup, messageInput>>
    /\ UNCHANGED <<pc, revision, ls, screen, allChannels, channelList,
                   channelVars, inviteVars, createChannelModal, channelView,
                   userOps, listenerVars>>

\* handleSendMessage, handleDeleteMessage, handlePinMessage, handleReact and
\* handleUnreact, once the apiCall of the mutation settles: the then
\* callback calls loadMessages(channelId); the one of the send clears the
\* inputs first, the ones of delete and pin show a notice
messageMutationSettle(r, resp) ==
    /\ BagIn(r, net)
    /\ r.who \in MessageMutations
    /\ LET out == apiCall(resp)
       IN  /\ errorPopup' = showErrors(errorPopup, out.shown)
           /\ last' = Report(r.who \o ".settle", r.auth, resp, out.shown,
                             IF out.rejected THEN "failed" ELSE "done",
                             r.args[1], <<>>)
           /\ IF out.rejected
              THEN /\ net' = Settle(net, r)
                   /\ UNCHANGED <<noticePopup, messageInput>>
              ELSE /\ net' = Issue(Settle(net, r),
                                   loadMessagesRequest(ls, r.args[1]))
                   /\ noticePopup' = IF mutationNotice(r) = NoError
                                     THEN noticePopup
                                     ELSE showNotice(mutationNotice(r))
                   /\ messageInput' = IF r.who = "handleSendMessage"
                                      THEN EmptyMessageInput ELSE messageInput
    /\ UNCHANGED <<pc, revision, ls, screen, allChannels, channelList,
                   channelVars, inviteVars, createChannelModal, channelView,
                   userOps, listenerVars>>

(***************************************************************************)
(* channel_invite.js: the invite modal                                     *)
(***************************************************************************)
\* the users GET /user lists, with one-letter names
BackendUsers ==
    <<[id |-> 1, name |-> "A"], [id |-> 2, name |-> "B"], [id |-> 3, name |-> "a"]>>

\* the place of a one-letter name in the order of
\* a.name.toLowerCase().localeCompare(b.name.toLowerCase())
NameKey(name) ==
    CASE name \in {"a", "A"} -> 1 [] name \in {"b", "B"} -> 2 [] OTHER -> 3

\* nonMembers.sort(...): Array.prototype.sort is stable
RECURSIVE SortByName(_)
SortByName(users) ==
    IF users = <<>> THEN <<>>
    ELSE LET first == Head(users)
             rest == SortByName(Tail(users))
         IN  SelectSeq(rest, LAMBDA u : NameKey(u.name) < NameKey(first.name))
             \o <<first>> \o
             SelectSeq(rest, LAMBDA u : NameKey(u.name) >= NameKey(first.name))

\* a set of user ids as the array the backend sends
MembersArray(members) ==
    CHOOSE s \in [1..Cardinality(members) -> members] :
        \A i, j \in DOMAIN s : i < j => s[i] < s[j]

\* createUserInviteItem(user), and the <p> elements showInviteModal appends
createUserInviteItem(user) ==
    [kind |-> "invite-member-item", userId |-> user.id, text |-> user.name,
     checked |-> FALSE]
inviteListMessage(kind, text) ==
    [kind |-> kind, userId |-> 0, text |-> text, checked |-> FALSE]

\* getAllUsers() for the closure that holds currentMembers
getAllUsersRequest(store, currentMembers) ==
    apiRequestWith(store, "getAllUsers", "GET", "/user", currentMembers, JsNull, 0)

\* inviteUserToChannel(channelId, userId), one promise of the Promise.all
\* named tag
inviteUserToChannelRequest(store, channelId, userId, tag) ==
    apiRequestWith(store, "inviteUserToChannel", "POST", "/channel/:id/invite",
                   <<channelId, userId>>, JsNull, tag)

\* names for the closures of showInviteModal and for the Promise.all of
\* submitHandler: the least numbers no live closure or promise bears
FreshClosure ==
    LET free == (1..(MaxListeners + MaxInviteInFlight + 1)) \
                ({l.closure : l \in inviteModal.listeners} \cup
                 {p.closure : p \in invitePromises})
    IN  CHOOSE c \in free : \A d \in free : c <= d
FreePromiseNames ==
    (1..(MaxListeners + MaxInviteInFlight)) \ {p.name : p \in invitePromises}
NthFreePromiseName(n) ==
    CHOOSE b \in FreePromiseNames :
        Cardinality({x \in FreePromiseNames : x <= b}) = n

\* closeModal of one closure
closeModal(modal, closure) ==
    [modal EXCEPT !.shown = FALSE, !.items = <<>>,
                  !.listeners = {l \in @ : l.closure # closure}]

\* showInviteModal(channelId, onSuccess), the click listener of the
\* Invite Users button
showInviteModal(channelId) ==
    /\ screen = "dashboard"
    /\ "invite" \in channelDetails.buttons
    /\ channelDetails.id = channelId
    /\ ~inviteModal.shown
    /\ Cardinality(inviteModal.listeners) < MaxListeners
    /\ BagCardinality(net) < MaxInviteInFlight
    /\ inviteModal' =
           [inviteModal EXCEPT
               !.shown = TRUE, !.items = <<>>,
               !.listeners = @ \cup {[closure |-> FreshClosure,
                                      channelId |-> channelId]}]
    /\ net' = Issue(net, getChannelDetailsRequest(ls, "showInviteModal",
                                                  channelId, 0))
    /\ last' = Step("showInviteModal", JsNull, NoResp)
    /\ UNCHANGED <<pc, revision, ls, screen, errorPopup, noticePopup,
                   allChannels, channelList, channelVars, invitePromises,
                   mutationVars, listenerVars>>

FailedToLoadUsers == inviteListMessage("error-message", "Failed to load users")

\* showInviteModal, once the apiCall of getChannelDetails settles
showInviteModalDetails(r, resp, channelData) ==
    /\ BagIn(r, net)
    /\ r.who = "showInviteModal"
    /\ LET out == apiCall(resp)
       IN  /\ errorPopup' = showErrors(errorPopup, out.shown)
           /\ last' = Step("showInviteModal.details", r.auth, resp)
           /\ IF out.rejected
              THEN /\ net' = Settle(net, r)
                   /\ inviteModal' =
                          [inviteModal EXCEPT
                              !.items = Append(@, FailedToLoadUsers)]
              ELSE /\ net' = Issue(Settle(net, r),
                                   getAllUsersRequest(
                                       ls, MembersArray(channelData.members)))
                   /\ inviteModal' = inviteModal
    /\ UNCHANGED <<pc, revision, ls, screen, noticePopup, allChannels,
                   channelList, channelVars, invitePromises,
                   mutationVars, listenerVars>>

\* showInviteModal, once the apiCall of getAllUsers settles
showInviteModalUsers(r, resp, allUsers) ==
    /\ BagIn(r, net)
    /\ r.who = "getAllUsers"
    /\ LET out == apiCall(resp)
           currentMembers == {r.args[i] : i \in DOMAIN r.args}
           nonMembers ==
               SortByName(SelectSeq(allUsers,
                                    LAMBDA user : user.id \notin currentMembers))
       IN  /\ errorPopup' = showErrors(errorPopup, out.shown)
           /\ last' = Step("showInviteModal.users", r.auth, resp)
           /\ inviteModal' =
                  IF out.rejected
                  THEN [inviteModal EXCEPT !.items = Append(@, FailedToLoadUsers)]
                  ELSE IF Len(nonMembers) = 0
                  THEN [inviteModal EXCEPT
                           !.items = Append(@, inviteListMessage(
                               "empty-message",
                               "All users are already members of this channel")),
                           !.disabled = TRUE]
                  ELSE [inviteModal EXCEPT
                           !.items = @ \o [i \in 1..Len(nonMembers) |->
                                              createUserInviteItem(nonMembers[i])],
                           !.disabled = FALSE]
    /\ net' = Settle(net, r)
    /\ UNCHANGED <<pc, revision, ls, screen, noticePopup, allChannels,
                   channelList, channelVars, invitePromises,
                   mutationVars, listenerVars>>

\* the user ticks or unticks a checkbox of the list
toggleCheckbox(i) ==
    /\ inviteModal.shown
    /\ i \in DOMAIN inviteModal.items
    /\ inviteModal.items[i].kind = "invite-member-item"
    /\ inviteModal' = [inviteModal EXCEPT !.items[i].checked = ~@]
    /\ last' = Step("toggleCheckbox", JsNull, NoResp)
    /\ UNCHANGED <<pc, revision, ls, screen, errorPopup, noticePopup, net,
                   allChannels, channelList, channelVars, invitePromises,
                   mutationVars, listenerVars>>

\* the user ids of the checked boxes, in document order
checkedUserIds(items) ==
    LET checkedBoxes ==
            SelectSeq(items, LAMBDA it : it.kind = "invite-member-item" /\ it.checked)
    IN  [i \in 1..Len(checkedBoxes) |-> checkedBoxes[i].userId]

\* a click on the submit button runs the submitHandler of every closure
\* whose listener is attached: each maps the checked boxes to
\* inviteUserToChannel calls and awaits them with its own Promise.all
submitHandler ==
    /\ screen = "dashboard"
    /\ inviteModal.shown
    /\ ~inviteModal.disabled
    /\ LET userIds == checkedUserIds(inviteModal.items)
           handlers == inviteModal.listeners
           promiseOf(l) ==
               NthFreePromiseName(
                   Cardinality({x \in handlers : x.closure <= l.closure}))
           invite(l, i) ==
               inviteUserToChannelRequest(ls, l.channelId, userIds[i], promiseOf(l))
           calls == handlers \X DOMAIN userIds
       IN  /\ last' = [Step("submitHandler", JsNull, NoResp) EXCEPT !.data = userIds]
           /\ IF Len(userIds) = 0
              THEN /\ errorPopup' =
                          showError("Please select at least one user to invite")
                   /\ UNCHANGED <<net, invitePromises>>
              ELSE /\ BagCardinality(net) + Cardinality(calls) <= MaxInviteInFlight
                   /\ errorPopup' = errorPopup
                   /\ net' = net (+)
                          [q \in {invite(c[1], c[2]) : c \in calls} |->
                              Cardinality({c \in calls : invite(c[1], c[2]) = q})]
                   /\ invitePromises' = invitePromises \cup
                          {[name |-> promiseOf(l), closure |-> l.closure,
                            channelId |-> l.channelId, n |-> Len(userIds),
                            left |-> Len(userIds), state |-> "pending",
                            failures |-> 0] : l \in handlers}
    /\ UNCHANGED <<pc, revision, ls, screen, noticePopup, allChannels,
                   channelList, channelVars, inviteModal,
                   mutationVars, listenerVars>>

\* a click on the cancel button (handler = "cancelHandler") or on the modal
\* outside its content ("outsideClickHandler") runs the closeModal of every
\* closure whose listener is attached
closeHandler(handler) ==
    /\ screen = "dashboard"
    /\ inviteModal.shown
    /\ inviteModal' =
           [inviteModal EXCEPT !.shown = FALSE, !.items = <<>>, !.listeners = {}]
    /\ last' = Step(handler, JsNull, NoResp)
    /\ UNCHANGED <<pc, revision, ls, screen, errorPopup, noticePopup, net,
                   allChannels, channelList, channelVars, invitePromises,
                   mutationVars, listenerVars>>

\* `Successfully invited ${userIds.length} user(s)`
InvitedText(n) ==
    CASE n = 1 -> "Successfully invited 1 user(s)"
      [] n = 2 -> "Successfully invited 2 user(s)"
      [] OTHER -> "Successfully invited n user(s)"

\* Promise.all(invitePromises) seeing one of its promises settle:
\* it fulfils when the last one resolves and rejects with the first
\* rejection (failures counts the rejections it has seen: history)
promiseAllSettle(p, rejected) ==
    IF rejected
    THEN [p EXCEPT !.state = IF @ = "pending" THEN "rejected" ELSE @,
                   !.failures = @ + 1]
    ELSE [p EXCEPT !.left = @ - 1,
                   !.state = IF @ = "pending" /\ p.left = 1
                             THEN "fulfilled" ELSE @]

\* one inviteUserToChannel settles; when that fulfils the Promise.all of its
\* submitHandler, the then callback runs: showNotice, closeModal and
\* onSuccess, which is loadChannelDetails(channelId) and loadChannels()
inviteSettle(r, resp) ==
    /\ BagIn(r, net)
    /\ r.who = "inviteUserToChannel"
    /\ LET out == apiCall(resp)
           p == CHOOSE p \in invitePromises : p.name = r.tag
           q == promiseAllSettle(p, out.rejected)
           awaited == \E x \in BagToSet(Settle(net, r)) :
                          x.who = "inviteUserToChannel" /\ x.tag = r.tag
           reload == loadChannelDetails(ls, allChannels, p.channelId,
                                        currentChannelData, channelDetails,
                                        messagesView)
       IN  /\ invitePromises' =
                  (invitePromises \ {p}) \cup (IF awaited THEN {q} ELSE {})
           /\ IF p.state = "pending" /\ q.state = "fulfilled"
              THEN /\ noticePopup' = showNotice(InvitedText(p.n))
                   /\ inviteModal' = closeModal(inviteModal, p.closure)
                   /\ errorPopup' =
                          showErrors(showErrors(errorPopup, out.shown), reload.shown)
                   /\ currentChannelData' = reload.data
                   /\ channelDetails' = reload.details
                   /\ messagesView' = reload.view
                   /\ net' = (Settle(net, r) (+) reload.requests)
                                 (+) SetToBag({loadChannelsRequest(ls)})
                   /\ last' = [Step("inviteUserToChannel.settle", r.auth, resp)
                                  EXCEPT !.data = <<"success", p.failures,
                                                    IF awaited THEN 1 ELSE 0>>]
              ELSE /\ errorPopup' = showErrors(errorPopup, out.shown)
                   /\ net' = Settle(net, r)
                   /\ last' = [Step("inviteUserToChannel.settle", r.auth, resp)
                                  EXCEPT !.data = <<"none", q.failures,
                                                    IF awaited THEN 1 ELSE 0>>]
                   /\ UNCHANGED <<noticePopup, inviteModal, currentChannelData,
                                  channelDetails, messagesView>>
    /\ UNCHANGED <<pc, revision, ls, screen, allChannels, channelList,
                   currentChannelId,
                   mutationVars, listenerVars>>

(***************************************************************************)
(* channel.js and its earlier revision: selecting, creating, editing,      *)
(* joining and leaving a channel.  revision = 1 is channel.js; revision = 2*)
(* is the earlier revision of the module, which has no allChannels, loads  *)
(* no messages and has no invite modal.                                    *)
(***************************************************************************)
\* createChannel(name, description, isPrivate), updateChannel(channelId,
\* name, description), joinChannel(channelId), leaveChannel(channelId); the
\* description and the privacy flag are not part of the model
createChannelRequest(store, name) ==
    apiRequestWith(store, "createChannel", "POST", "/channel", <<>>, name, 0)
updateChannelRequest(store, channelId, name, tag) ==
    apiRequestWith(store, "updateChannel", "PUT", "/channel/:id", <<channelId>>,
                   name, tag)
joinChannelRequest(store, channelId) ==
    apiRequestWith(store, "joinChannel", "POST", "/channel/:id/join",
                   <<channelId>>, JsNull, 0)
leaveChannelRequest(store, channelId) ==
    apiRequestWith(store, "leaveChannel", "POST", "/channel/:id/leave",
                   <<channelId>>, JsNull, 0)

\* renderChannelDetails of either revision: the earlier one has no
\* View Pinned and no Invite Users button
renderChannelDetailsOf(rev, channelData, userId) ==
    IF rev = 1 THEN renderChannelDetails(channelData, userId)
    ELSE [renderChannelDetails(channelData, userId)
             EXCEPT !.buttons = @ \ {"pinned", "invite"}]

\* loadChannelDetails(channelId) of either revision, in the current state:
\* the earlier revision always asks the backend
loadChannelDetailsOf(rev, channelId) ==
    IF rev = 1
    THEN loadChannelDetails(ls, allChannels, channelId, currentChannelData,
                            channelDetails, messagesView)
    ELSE [shown |-> <<>>,
          requests |-> SetToBag({getChannelDetailsRequest(
                           ls, "loadChannelDetails", channelId, 0)}),
          data |-> currentChannelData, details |-> channelDetails,
          view |-> messagesView]

\* loadChannelDetails of the earlier revision, once the apiCall of
\* getChannelDetails settles: the body is stored and rendered as it came,
\* without an id
loadChannelDetailsSettleR2(r, resp, body) ==
    /\ revision = 2
    /\ BagIn(r, net)
    /\ r.who = "loadChannelDetails"
    /\ LET out == apiCall(resp)
       IN  /\ errorPopup' = showErrors(errorPopup, out.shown)
           /\ last' = Report("loadChannelDetails.settle", r.auth, resp, out.shown,
                             IF out.rejected THEN "failed" ELSE "done",
                             r.args[1], <<>>)
           /\ IF out.rejected
              THEN UNCHANGED <<currentChannelData, channelDetails>>
              ELSE /\ currentChannelData' = body
                   /\ channelDetails' =
                          renderChannelDetailsOf(2, body, getUserId(ls))
    /\ net' = Settle(net, r)
    /\ UNCHANGED <<pc, revision, ls, screen, noticePopup, allChannels,
                   channelList, currentChannelId, messagesView,
                   inviteVars, mutationVars, listenerVars>>

\* selectChannel(channelId), run with the requests pending in flight and
\* popup the error popup: the active class is removed from the list, the
\* channel view is shown, then loadChannelDetails and loadChannels run
selectChannel(pending, popup, channelId) ==
    LET reload == loadChannelDetailsOf(revision, channelId)
    IN  /\ currentChannelId' = channelId
        /\ channelList' =
               [i \in DOMAIN channelList |-> [channelList[i] EXCEPT !.active = FALSE]]
        /\ channelView' = "channel"
        /\ errorPopup' = showErrors(popup, reload.shown)
        /\ currentChannelData' = reload.data
        /\ channelDetails' = reload.details
        /\ messagesView' = reload.view
        /\ net' = (pending (+) reload.requests)
                      (+) SetToBag({loadChannelsRequest(ls)})

\* the click listener of a channel element of the list
channelElementClick(channelId) ==
    /\ UserOp
    /\ PageClickable
    /\ \E i \in DOMAIN channelList :
           channelList[i].kind = "channel-container" /\ channelList[i].id = channelId
    /\ CanIssue
    /\ selectChannel(net, errorPopup, channelId)
    /\ last' = Report("selectChannel", JsNull, NoResp,
                      loadChannelDetailsOf(revision, channelId).shown, "done",
                      channelId, <<>>)
    /\ UNCHANGED <<pc, revision, ls, screen, noticePopup, allChannels,
                   inviteVars, createChannelModal, messageInput, listenerVars>>

\* showCreateChannelModal, hideCreateChannelModal and showEditChannelModal:
\* what they leave of the modal.  channel.js keeps the edit flags; the
\* earlier revision replaces the form by a clone that bears the submit
\* listener of the edit (form: a name for that clone, editId: the id of the
\* channelData its listener closes over)
showCreateChannelModal(rev, modal) ==
    IF rev = 1
    THEN [modal EXCEPT !.shown = TRUE, !.isEditMode = FALSE,
                       !.editingChannelId = NoChannel]
    ELSE [modal EXCEPT !.shown = TRUE]
\* hideCreateChannelModal that only hides the modal
hideCreateChannelModal_KeepsFlags(rev, modal) == [modal EXCEPT !.shown = FALSE]
hideCreateChannelModal(rev, modal) ==
    IF rev = 1
    THEN [modal EXCEPT !.shown = FALSE, !.isEditMode = FALSE,
                       !.editingChannelId = NoChannel]
    ELSE [modal EXCEPT !.shown = FALSE]
FreshForm ==
    LET free == (1..(MaxInFlight + 2)) \
                ({createChannelModal.form} \cup {r.tag : r \in BagToSet(net)})
    IN  CHOOSE k \in free : \A j \in free : k <= j
showEditChannelModal(rev, modal, channelId) ==
    IF rev = 1
    THEN [modal EXCEPT !.shown = TRUE, !.isEditMode = TRUE,
                       !.editingChannelId = channelId]
    ELSE [modal EXCEPT !.shown = TRUE, !.form = FreshForm, !.editId = channelId]

\* the click listeners of the Create Channel button, of the cancel button of
\* the modal and of the Edit Channel button of the details (handler names
\* the function, channelId the channelData.id the Edit listener closes over)
modalButtonClick(handler, channelId) ==
    /\ UserOp
    /\ CASE handler = "showCreateChannelModal" ->
              /\ PageClickable
              /\ createChannelModal' =
                     showCreateChannelModal(revision, createChannelModal)
         [] handler = "hideCreateChannelModal" ->
              /\ screen = "dashboard"
              /\ createChannelModal.shown
              /\ createChannelModal' =
                     hideCreateChannelModal(revision, createChannelModal)
         [] handler = "showEditChannelModal" ->
              /\ PageClickable
              /\ "edit" \in channelDetails.buttons
              /\ channelDetails.id = channelId
              /\ createChannelModal' =
                     showEditChannelModal(revision, createChannelModal, channelId)
    /\ last' = Report(handler, JsNull, NoResp, <<>>, "done", channelId, <<>>)
    /\ UNCHANGED <<pc, revision, ls, screen, errorPopup, noticePopup, net,
                   allChannels, channelList, channelVars, inviteVars,
                   channelView, messageInput, listenerVars>>

\* the message the validation of handleCreateChannel shows, NoError when the
\* name passes
channelValidation(name) ==
    IF Trim(name) = <<>> THEN "Channel name is required" ELSE NoError

\* the submit listener of the form, up to the request: handleCreateChannel
\* with its create and its edit branch, and in the earlier revision, for a
\* form that showEditChannelModal put in place, the listener of that form
handleCreateChannel(name) ==
    /\ UserOp
    /\ screen = "dashboard"
    /\ createChannelModal.shown
    /\ LET modal == createChannelModal
           problem == channelValidation(name)
       IN  IF revision = 2 /\ modal.form # 0
           THEN /\ CanIssue
                /\ errorPopup' = errorPopup
                /\ net' = Issue(net, updateChannelRequest(ls, modal.editId,
                                                         Trim(name), modal.form))
                /\ last' = Report("showEditChannelModal.submit", JsNull, NoResp,
                                  <<>>, "issued", modal.editId, name)
           ELSE IF problem # NoError
           THEN /\ errorPopup' = showError(problem)
                /\ net' = net
                /\ last' = Report("handleCreateChannel", JsNull, NoResp,
                                  <<problem>>, "invalid", NoChannel, name)
           ELSE IF modal.isEditMode /\ modal.editingChannelId # NoChannel
           THEN /\ CanIssue
                /\ errorPopup' = errorPopup
                /\ net' = Issue(net, updateChannelRequest(ls, modal.editingChannelId,
                                                         Trim(name), 0))
                /\ last' = Report("handleCreateChannel", JsNull, NoResp,
                                  <<>>, "issued", modal.editingChannelId, name)
           ELSE /\ CanIssue
                /\ errorPopup' = errorPopup
                /\ net' = Issue(net, createChannelRequest(ls, Trim(name)))
                /\ last' = Report("handleCreateChannel", JsNull, NoResp,
                                  <<>>, "issued", NoChannel, name)
    /\ UNCHANGED <<pc, revision, ls, screen, noticePopup, allChannels,
                   channelList, channelVars, inviteVars, createChannelModal, channelView,
                   messageInput, listenerVars>>

\* a failed mutation whose catch callback closes the modal and reloads the
\* channel list as the then callback does
channelMutationFailed_Reloading(r, resp) ==
    /\ errorPopup' = showErrors(errorPopup, apiCall(resp).shown)
    /\ createChannelModal' = hideCreateChannelModal(revision, createChannelModal)
    /\ net' = Issue(Settle(net, r), loadChannelsRequest(ls))
    /\ last' = Report(r.who \o ".settle", r.auth, resp, apiCall(resp).shown,
                      "failed", IF r.args = <<>> THEN NoChannel ELSE r.args[1],
                      <<>>)
    /\ UNCHANGED <<pc, revision, ls, screen, noticePopup, allChannels,
                   channelList, channelVars, inviteVars, channelView,
                   messageInput, userOps, listenerVars>>

\* a mutation of a channel whose promise rejected: apiCall has shown the
\* error and the catch callback only logs
channelMutationFailed(r, resp) ==
    /\ errorPopup' = showErrors(errorPopup, apiCall(resp).shown)
    /\ net' = Settle(net, r)
    /\ last' = Report(r.who \o ".settle", r.auth, resp, apiCall(resp).shown,
                      "failed", IF r.args = <<>> THEN NoChannel ELSE r.args[1],
                      <<>>)
    /\ UNCHANGED <<pc, revision, ls, screen, noticePopup, allChannels,
                   channelList, channelVars, inviteVars, mutationVars, listenerVars>>

\* handleCreateChannel, once the apiCall of createChannel settles: the then
\* callback hides the modal, calls loadChannels and selects data.channelId
handleCreateChannelSettle(r, resp, channelId) ==
    /\ BagIn(r, net)
    /\ r.who = "createChannel"
    /\ IF apiCall(resp).rejected
       THEN channelMutationFailed(r, resp)
       ELSE /\ createChannelModal' =
                   hideCreateChannelModal(revision, createChannelModal)
            /\ selectChannel(Issue(Settle(net, r), loadChannelsRequest(ls)),
                             errorPopup, channelId)
            /\ last' = Report("createChannel.settle", r.auth, resp,
                              loadChannelDetailsOf(revision, channelId).shown,
                              "done", channelId, <<>>)
            /\ UNCHANGED <<pc, revision, ls, screen, noticePopup, allChannels,
                           inviteVars, messageInput, userOps, listenerVars>>

\* the then callback of an update, once the apiCall of updateChannel
\* settles.  channel.js: hideCreateChannelModal, then loadChannelDetails of
\* editingChannelId as hideCreateChannelModal left it, then loadChannels.
\* Earlier revision: the modal is hidden; the form of the listener is
\* replaced by a clone that bears handleCreateChannel, which throws when
\* that form is no longer in the document; then loadChannelDetails of the
\* channelData.id of the closure and loadChannels
handleUpdateChannelSettle(r, resp) ==
    /\ BagIn(r, net)
    /\ r.who = "updateChannel"
    /\ IF apiCall(resp).rejected
       THEN channelMutationFailed(r, resp)
       ELSE LET hidden == hideCreateChannelModal(revision, createChannelModal)
                threw == revision = 2 /\ r.tag # createChannelModal.form
                reload == loadChannelDetailsOf(
                              revision,
                              IF revision = 1 THEN hidden.editingChannelId
                              ELSE r.args[1])
            IN  /\ createChannelModal' =
                       IF revision = 2 /\ ~threw
                       THEN [hidden EXCEPT !.form = 0, !.editId = NoChannel]
                       ELSE hidden
                /\ IF threw
                   THEN /\ net' = Settle(net, r)
                        /\ last' = Report("updateChannel.settle", r.auth, resp,
                                          <<>>, "threw", r.args[1], <<>>)
                        /\ UNCHANGED <<errorPopup, currentChannelData,
                                       channelDetails, messagesView>>
                   ELSE /\ errorPopup' = showErrors(errorPopup, reload.shown)
                        /\ currentChannelData' = reload.data
                        /\ channelDetails' = reload.details
                        /\ messagesView' = reload.view
                        /\ net' = (Settle(net, r) (+) reload.requests)
                                      (+) SetToBag({loadChannelsRequest(ls)})
                        /\ last' = Report("updateChannel.settle", r.auth, resp,
                                          reload.shown, "done", r.args[1], <<>>)
                /\ UNCHANGED <<pc, revision, ls, screen, noticePopup, allChannels,
                               channelList, currentChannelId, inviteVars,
                               channelView, messageInput, userOps, listenerVars>>

\* handleJoinChannel(channelId) and handleLeaveChannel(channelId), the click
\* listeners of the Join Channel and Leave Channel buttons, up to the
\* request (button: "join" or "leave")
membershipButtonClick(button, channelId) ==
    /\ UserOp
    /\ PageClickable
    /\ button \in channelDetails.buttons
    /\ channelDetails.id = channelId
    /\ CanIssue
    /\ net' = Issue(net, IF button = "join" THEN joinChannelRequest(ls, channelId)
                         ELSE leaveChannelRequest(ls, channelId))
    /\ last' = Report(IF button = "join" THEN "handleJoinChannel"
                      ELSE "handleLeaveChannel",
                      JsNull, NoResp, <<>>, "issued", channelId, <<>>)
    /\ UNCHANGED <<pc, revision, ls, screen, errorPopup, noticePopup,
                   allChannels, channelList, channelVars, inviteVars,
                   createChannelModal, channelView,
                   messageInput, listenerVars>>

\* handleJoinChannel, once the apiCall of joinChannel settles: the then
\* callback calls loadChannelDetails(channelId) and loadChannels
handleJoinChannelSettle(r, resp) ==
    /\ BagIn(r, net)
    /\ r.who = "joinChannel"
    /\ IF apiCall(resp).rejected
       THEN channelMutationFailed(r, resp)
       ELSE LET reload == loadChannelDetailsOf(revision, r.args[1])
            IN  /\ errorPopup' = showErrors(errorPopup, reload.shown)
                /\ currentChannelData' = reload.data
                /\ channelDetails' = reload.details
                /\ messagesView' = reload.view
                /\ net' = (Settle(net, r) (+) reload.requests)
                              (+) SetToBag({loadChannelsRequest(ls)})
                /\ last' = Report("joinChannel.settle", r.auth, resp,
                                  reload.shown, "done", r.args[1], <<>>)
                /\ UNCHANGED <<pc, revision, ls, screen, noticePopup, allChannels,
                               channelList, currentChannelId, inviteVars,
                               mutationVars, listenerVars>>

\* handleLeaveChannel, once the apiCall of leaveChannel settles: the then
\* callback shows the welcome screen, forgets the current channel and calls
\* loadChannels
handleLeaveChannelSettle(r, resp) ==
    /\ BagIn(r, net)
    /\ r.who = "leaveChannel"
    /\ IF apiCall(resp).rejected
       THEN channelMutationFailed(r, resp)
       ELSE /\ channelView' = "welcome"
            /\ currentChannelId' = NoChannel
            /\ currentChannelData' = NoChannelData
            /\ net' = Issue(Settle(net, r), loadChannelsRequest(ls))
            /\ last' = Report("leaveChannel.settle", r.auth, resp, <<>>, "done",
                              r.args[1], <<>>)
            /\ UNCHANGED <<pc, revision, ls, screen, errorPopup, noticePopup,
                           allChannels, channelList, channelDetails, messagesView,
                           inviteVars, createChannelModal, messageInput,
                           userOps, listenerVars>>

(***************************************************************************)
(* channel_messages.js: the image viewer                                   *)
(***************************************************************************)
\* getMessages(channelId, 0) as showImageViewer calls it, for the image the
\* user clicked (imageSrc, which the then callback closes over)
showImageViewerRequest(store, channelId, imageSrc) ==
    apiRequestWith(store, "showImageViewer", "GET", "/channel/:id/message?start=0",
                   <<channelId, imageSrc>>, JsNull, 0)

\* data.messages.filter(msg => msg.image).map(msg => msg.image).reverse()
RECURSIVE ImagesOf(_)
ImagesOf(messages) ==
    IF messages = <<>> THEN <<>>
    ELSE LET rest == ImagesOf(Tail(messages))
         IN  IF Head(messages).image # NoImage
             THEN Append(rest, Head(messages).image) ELSE rest

\* channelImages.findIndex(img => img === imageSrc), counted from 0
findIndex(images, imageSrc) ==
    LET found == {i \in DOMAIN images : images[i] = imageSrc}
    IN  IF found = {} THEN -1
        ELSE (CHOOSE i \in found : \A j \in found : i <= j) - 1

\* displayImageViewer: the modal is shown for channelImages[currentImageIndex]
\* and the four handlers of a new closure are attached; the
\* removeEventListener calls before that name the handlers of the new
\* closure, which are not attached, and remove nothing
displayImageViewer(viewer) ==
    [viewer EXCEPT !.shown = TRUE, !.listeners = @ + 1]

\* whether #image-viewer-prev and #image-viewer-next are displayed
PrevDisplayed(viewer) == viewer.shown /\ viewer.index > 0
NextDisplayed(viewer) == viewer.shown /\ viewer.index < Len(viewer.images) - 1

\* prevHandler (step = -1) and nextHandler (step = 1) of one closure
navHandler(viewer, step) ==
    LET inRange == IF step = 1 THEN viewer.index < Len(viewer.images) - 1
                   ELSE viewer.index > 0
    IN  IF inRange
        THEN displayImageViewer([viewer EXCEPT !.index = @ + step])
        ELSE viewer

\* the handlers of n closures, run one after the other by one click (a
\* listener added while the click is dispatched is not run by this click)
RECURSIVE RunNavHandlers(_, _, _)
RunNavHandlers(n, viewer, step) ==
    IF n = 0 THEN viewer
    ELSE RunNavHandlers(n - 1, navHandler(viewer, step), step)

\* the click listener of a message image: showImageViewer up to the request
showImageViewer(imageSrc, channelId) ==
    /\ PageClickable
    /\ ~imageViewer.shown
    /\ channelView = "channel"
    /\ channelId = currentChannelId
    /\ CanIssue
    /\ net' = Issue(net, showImageViewerRequest(ls, channelId, imageSrc))
    /\ last' = Report("showImageViewer", JsNull, NoResp, <<>>, "issued",
                      channelId, <<>>)
    /\ UNCHANGED <<pc, revision, ls, screen, errorPopup, noticePopup, allChannels,
                   channelList, channelVars, inviteVars, mutationVars,
                   listenerVars>>

\* showImageViewer, once the apiCall of getMessages settles
showImageViewerSettle(r, resp, messages) ==
    /\ BagIn(r, net)
    /\ r.who = "showImageViewer"
    /\ LET out == apiCall(resp)
           channelImages == ImagesOf(messages)
           found == findIndex(channelImages, r.args[2])
       IN  /\ errorPopup' = showErrors(errorPopup, out.shown)
           /\ last' = Report("showImageViewer.settle", r.auth, resp, out.shown,
                             IF out.rejected THEN "failed" ELSE "done",
                             r.args[1], <<>>)
           /\ imageViewer' =
                  IF out.rejected THEN imageViewer
                  ELSE displayImageViewer(
                           [imageViewer EXCEPT
                                !.images = channelImages,
                                !.index = IF found = -1 THEN 0 ELSE found])
    /\ net' = Settle(net, r)
    /\ UNCHANGED <<pc, revision, ls, screen, noticePopup, allChannels,
                   channelList, channelVars, inviteVars, mutationVars,
                   sendListeners, profileModal>>

\* one click on #image-viewer-prev (step = -1) or #image-viewer-next
\* (step = 1): the handler of every attached closure runs
navButtonClick(step) ==
    /\ screen = "dashboard"
    /\ IF step = 1 THEN NextDisplayed(imageViewer) ELSE PrevDisplayed(imageViewer)
    /\ imageViewer.listeners < MaxViewerListeners
    /\ imageViewer' = RunNavHandlers(imageViewer.listeners, imageViewer, step)
    /\ last' = Report(IF step = 1 THEN "nextHandler" ELSE "prevHandler",
                      JsNull, NoResp, <<>>, "done", currentChannelId, <<>>)
    /\ UNCHANGED <<pc, revision, ls, screen, errorPopup, noticePopup, net,
                   allChannels, channelList, channelVars, inviteVars,
                   mutationVars, sendListeners, profileModal>>

\* one click on #image-viewer-close or on the modal outside the image: the
\* closeHandler of every attached closure runs and removes the four handlers
\* of its closure
viewerCloseClick ==
    /\ screen = "dashboard"
    /\ imageViewer.shown
    /\ imageViewer' = [imageViewer EXCEPT !.shown = FALSE, !.listeners = 0]
    /\ last' = Report("closeHandler", JsNull, NoResp, <<>>, "done",
                      currentChannelId, <<>>)
    /\ UNCHANGED <<pc, revision, ls, screen, errorPopup, noticePopup, net,
                   allChannels, channelList, channelVars, inviteVars,
                   mutationVars, sendListeners, profileModal>>

(***************************************************************************)
(* user_profile.js: the profile modal of another user                      *)
(***************************************************************************)
\* getUserProfile(userId) is apiCall(`/user/${userId}`, 'GET')
getUserProfileRequest(store, userId) ==
    apiRequestWith(store, "showUserProfile", "GET", "/user/:id", <<userId>>,
                   JsNull, 0)

\* the click listener of the sender name of a message: showUserProfile shows
\* the modal, sends the request and attaches closeHandler to #profile-close
\* and outsideClickHandler to the modal
showUserProfile(userId) ==
    /\ PageClickable
    /\ ~profileModal.shown
    /\ profileModal.listeners < MaxProfileListeners
    /\ \E el \in MessageElements(messagesView) : el.msg.sender = userId
    /\ CanIssue
    /\ profileModal' = [shown |-> TRUE, listeners |-> profileModal.listeners + 1]
    /\ net' = Issue(net, getUserProfileRequest(ls, userId))
    /\ last' = Report("showUserProfile", JsNull, NoResp, <<>>, "issued",
                      currentChannelId, <<>>)
    /\ UNCHANGED <<pc, revision, ls, screen, errorPopup, noticePopup, allChannels,
                   channelList, channelVars, inviteVars, mutationVars,
                   sendListeners, imageViewer>>

\* showUserProfile, once the apiCall of getUserProfile settles: the then
\* callback fills the modal, the catch callback hides it
showUserProfileSettle(r, resp) ==
    /\ BagIn(r, net)
    /\ r.who = "showUserProfile"
    /\ LET out == apiCall(resp)
       IN  /\ errorPopup' = showErrors(errorPopup, out.shown)
           /\ last' = Report("showUserProfile.settle", r.auth, resp, out.shown,
                             IF out.rejected THEN "failed" ELSE "done",
                             currentChannelId, <<>>)
           /\ profileModal' = IF out.rejected
                              THEN [profileModal EXCEPT !.shown = FALSE]
                              ELSE profileModal
    /\ net' = Settle(net, r)
    /\ UNCHANGED <<pc, revision, ls, screen, noticePopup, allChannels,
                   channelList, channelVars, inviteVars, mutationVars,
                   sendListeners, imageViewer>>

\* one click on #profile-close or on the modal outside its content: the
\* closeHandler of every attached closure runs, hides the modal and removes
\* the two handlers of its closure
profileCloseClick ==
    /\ screen = "dashboard"
    /\ profileModal.shown
    /\ profileModal' = [shown |-> FALSE, listeners |-> 0]
    /\ last' = Report("profileCloseHandler", JsNull, NoResp, <<>>, "done",
                      currentChannelId, <<>>)
    /\ UNCHANGED <<pc, revision, ls, screen, errorPopup, noticePopup, net,
                   allChannels, channelList, channelVars, inviteVars,
                   mutationVars, sendListeners, imageViewer>>

(***************************************************************************)
(* The session specification: one page load, from DOMContentLoaded on.     *)
(***************************************************************************)
\* what earlier page loads (of any revision) may have left in localStorage
StoredTokens == {StrNull, StrUndefined, <<" ">>, <<"A">>}
InitialStores ==
    {[k \in {} |-> <<>>]} \cup
    {[k \in {KeyToken} |-> t] : t \in StoredTokens} \cup
    {[k \in {KeyToken, KeyUserId} |-> IF k = KeyToken THEN t ELSE NumStr(1)] :
        t \in StoredTokens}

vars ==
    <<pc, revision, ls, screen, errorPopup, noticePopup, net, allChannels,
      channelList, last, channelVars, inviteVars, mutationVars, listenerVars>>

Init ==
    /\ pc = "boot"
    /\ revision \in {1, 2}
    /\ ls \in InitialStores
    /\ screen = "unset"
    /\ errorPopup = HiddenPopup
    /\ noticePopup = HiddenPopup
    /\ net = EmptyBag
    /\ allChannels = <<>>
    /\ channelList = <<>>
    /\ last = Step("load", JsNull, NoResp)
    /\ currentChannelId = NoChannel
    /\ currentChannelData = NoChannelData
    /\ channelDetails = NoDetails
    /\ messagesView = <<>>
    /\ inviteModal = ClosedInviteModal
    /\ invitePromises = {}
    /\ createChannelModal = ClosedCreateModal
    /\ channelView = "welcome"
    /\ messageInput = EmptyMessageInput
    /\ userOps = 0
    /\ sendListeners = 0
    /\ imageViewer = ClosedImageViewer
    /\ profileModal = ClosedProfileModal

LogoutAnswer ==
    \E r \in BagToSet(net), resp \in Responses : handleLogoutSettle(r, resp)
InitAnswer ==
    \E r \in BagToSet(net), resp \in Responses : initSettle(r, resp)

Next ==
    \/ init
    \/ \E email \in Emails, password \in Passwords : handleLogin(email, password)
    \/ \E email \in Emails, name \in Names, password \in Passwords,
          confirmPassword \in Passwords :
           handleRegister(email, name, password, confirmPassword)
    \/ handleLogout
    \/ \E r \in BagToSet(net), resp \in Responses : handleLoginSettle(r, resp)
    \/ \E r \in BagToSet(net), resp \in Responses : handleRegisterSettle(r, resp)
    \/ LogoutAnswer
    \/ InitAnswer
    \/ \E r \in BagToSet(net), resp \in Responses,
          channels \in SessionChannelLists :
           loadChannelsSettle(r, resp, channels)

Spec == Init /\ [][Next]_vars

\* the fetch of handleLogout settles: no request stays unanswered forever
SpecFair == Spec /\ WF_vars(LogoutAnswer)

(***************************************************************************)
(* The channel list specification: a page load with a stored session, the  *)
(* backend answering GET /channel with any channel list.                   *)
(***************************************************************************)
\* localStorage after user 1 logged in
LoggedInStore ==
    [k \in {KeyToken, KeyUserId} |-> IF k = KeyToken THEN <<"A">> ELSE NumStr(1)]
OkResp == [failed |-> FALSE, status |-> 200, json |-> TRUE, error |-> NoError]

InitChannels ==
    /\ pc = "boot"
    /\ revision = 1
    /\ ls = LoggedInStore
    /\ screen = "unset"
    /\ errorPopup = HiddenPopup
    /\ noticePopup = HiddenPopup
    /\ net = EmptyBag
    /\ allChannels = <<>>
    /\ channelList = <<>>
    /\ last = Step("load", JsNull, NoResp)
    /\ currentChannelId = NoChannel
    /\ currentChannelData = NoChannelData
    /\ channelDetails = NoDetails
    /\ messagesView = <<>>
    /\ inviteModal = ClosedInviteModal
    /\ invitePromises = {}
    /\ createChannelModal = ClosedCreateModal
    /\ channelView = "welcome"
    /\ messageInput = EmptyMessageInput
    /\ userOps = 0
    /\ sendListeners = 0
    /\ imageViewer = ClosedImageViewer
    /\ profileModal = ClosedProfileModal

NextChannels ==
    \/ init
    \/ InitAnswer
    \/ \E r \in BagToSet(net), resp \in Responses :
           \E channels \in IF apiCall(resp).rejected THEN {<<>>} ELSE ChannelLists :
               loadChannelsSettle(r, resp, channels)
    \/ handleLogout
    \/ LogoutAnswer

SpecChannels == InitChannels /\ [][NextChannels]_vars

(***************************************************************************)
(* The message list specification: user 1 has selected channel 1, the      *)
(* details of the channel are rendered and loadMessages has issued         *)
(* getMessages; the backend answers it with any message list.              *)
(***************************************************************************)
InitMessages ==
    /\ pc = "ready"
    /\ revision = 1
    /\ ls = LoggedInStore
    /\ screen = "dashboard"
    /\ errorPopup = HiddenPopup
    /\ noticePopup = HiddenPopup
    /\ net = SetToBag({loadMessagesRequest(LoggedInStore, 1)})
    /\ allChannels = <<Channel(1, FALSE)>>
    /\ channelList = renderChannelList(<<Channel(1, FALSE)>>, 1)
    /\ last = Step("loadChannelDetails.settle", <<"A">>, OkResp)
    /\ currentChannelId = 1
    /\ currentChannelData = Channel(1, FALSE)
    /\ channelDetails = renderChannelDetails(Channel(1, FALSE), 1)
    /\ messagesView = <<>>
    /\ inviteModal = ClosedInviteModal
    /\ invitePromises = {}
    /\ createChannelModal = ClosedCreateModal
    /\ channelView = "channel"
    /\ messageInput = EmptyMessageInput
    /\ userOps = 0
    /\ sendListeners = 1
    /\ imageViewer = ClosedImageViewer
    /\ profileModal = ClosedProfileModal

\* what the user may answer the prompt of handleEditMessage with
EditInputs == {JsNull, <<" ">>, <<"a">>, <<" ", "a">>, <<"b">>}

NextMessages ==
    \/ \E r \in BagToSet(net), resp \in Responses :
           \E messages \in IF apiCall(resp).rejected THEN {<<>>} ELSE MessageLists :
               loadMessagesSettle(r, resp, messages)
    \/ \E el \in MessageElements(messagesView), newMessage \in EditInputs :
           handleEditMessage(el, newMessage)
    \/ \E r \in BagToSet(net), resp \in Responses : handleEditMessageSettle(r, resp)

SpecMessages == InitMessages /\ [][NextMessages]_vars

(***************************************************************************)
(* The invite specification: user 1 has selected channel 1, which they     *)
(* created; its details and its (empty) message list are rendered.  The    *)
(* backend answers every request with a JSON body or not at all.           *)
(***************************************************************************)
InitInvite ==
    /\ pc = "ready"
    /\ revision = 1
    /\ ls = LoggedInStore
    /\ screen = "dashboard"
    /\ errorPopup = HiddenPopup
    /\ noticePopup = HiddenPopup
    /\ net = EmptyBag
    /\ allChannels \in SessionChannelLists
    /\ channelList = renderChannelList(allChannels, 1)
    /\ last = Step("loadMessages.settle", <<"A">>, OkResp)
    /\ currentChannelId = 1
    /\ currentChannelData = Channel(1, FALSE)
    /\ channelDetails = renderChannelDetails(Channel(1, FALSE), 1)
    /\ messagesView = renderMessages(<<>>, 1, 1)
    /\ inviteModal = ClosedInviteModal
    /\ invitePromises = {}
    /\ createChannelModal = ClosedCreateModal
    /\ channelView = "channel"
    /\ messageInput = EmptyMessageInput
    /\ userOps = 0
    /\ sendListeners = 1
    /\ imageViewer = ClosedImageViewer
    /\ profileModal = ClosedProfileModal

JsonResponses == {resp \in Responses : resp.failed \/ resp.json}

NextInvite ==
    \/ showInviteModal(channelDetails.id)
    \/ submitHandler
    \/ closeHandler("cancelHandler")
    \/ closeHandler("outsideClickHandler")
    \/ \E i \in DOMAIN inviteModal.items : toggleCheckbox(i)
    \/ \E r \in BagToSet(net), resp \in JsonResponses :
           \E channelData \in IF apiCall(resp).rejected
                              THEN {NoChannelData} ELSE ChannelBodies(1) :
               showInviteModalDetails(r, resp, channelData)
    \/ \E r \in BagToSet(net), resp \in JsonResponses :
           showInviteModalUsers(r, resp, BackendUsers)
    \/ \E r \in BagToSet(net), resp \in JsonResponses : inviteSettle(r, resp)
    \* the reload onSuccess starts
    \/ \E r \in BagToSet(net), resp \in JsonResponses :
           loadChannelDetailsSettle(r, resp,
               [Channel(r.args[1], FALSE) EXCEPT !.id = NoChannel])
    \/ \E r \in BagToSet(net), resp \in JsonResponses,
          channels \in SessionChannelLists :
           loadChannelsSettle(r, resp, channels)
    \/ \E r \in BagToSet(net), resp \in JsonResponses :
           loadMessagesSettle(r, resp, <<>>)

SpecInvite == InitInvite /\ [][NextInvite]_vars

(***************************************************************************)
(* The mutation specification: user 1 is logged in on the dashboard of     *)
(* either revision and has selected channel 2, of which they are a member: *)
(* the list, the details and the messages of the channel are loaded.       *)
(* The user selects, creates, edits, joins and leaves channels and sends,  *)
(* edits, deletes, pins and reacts to messages, MaxUserOps operations in   *)
(* all; the backend answers a mutation of a channel with success, with a   *)
(* 403 that carries a JSON error, or not at all, and every other request   *)
(* with one of the former two.                                             *)
(***************************************************************************)
\* a channel of the backend with its creator and its members
ChannelOf(id, creator, members) ==
    [Channel(id, FALSE) EXCEPT !.creator = creator, !.members = members]
\* the lists GET /channel answers with: user 1 is a member of channel 2
\* and no member of channel 3; later they have joined channel 3 and created
\* channel 4
MutationChannelLists ==
    {<<ChannelOf(2, 2, {1, 2}), ChannelOf(3, 2, {2})>>,
     <<ChannelOf(2, 2, {1, 2}), ChannelOf(3, 2, {1, 2}), ChannelOf(4, 1, {1})>>}
InitialChannelList == <<ChannelOf(2, 2, {1, 2}), ChannelOf(3, 2, {2})>>
\* the ids the backend gives to created channels, and the one it gives to
\* the next: an id no channel of the list has
NewChannelIds == {4, 5}
NewChannelId ==
    LET free == NewChannelIds \ {allChannels[i].id : i \in DOMAIN allChannels}
    IN  CHOOSE c \in free : \A d \in free : c <= d
\* the bodies GET /channel/:id answers with: the channel, as one of the
\* lists has it or as user 1 has just created it, without its id
MutationChannelBodies(channelId) ==
    LET ofId == UNION {{list[i] : i \in {j \in DOMAIN list : list[j].id = channelId}} :
                          list \in MutationChannelLists}
    IN  {[ch EXCEPT !.id = NoChannel] :
            ch \in IF ofId = {} THEN {ChannelOf(channelId, 1, {1})} ELSE ofId}
\* the messages GET /channel/:id/message answers with: user 2 sent message
\* 3, to which user 1 has reacted, and user 1 sent the pinned message 1
MutationMessageList ==
    <<[id |-> 3, sender |-> 2, message |-> <<"b">>, pinned |-> FALSE, reacts |-> {1}],
      [id |-> 1, sender |-> 1, message |-> <<"a">>, pinned |-> TRUE, reacts |-> {}]>>
MutationResponses ==
    {NetworkFailure, OkResp, [failed |-> FALSE, status |-> 403, json |-> TRUE, error |-> "E1"]}
\* the answers to the requests for the list, the details and the messages
\* and to the mutations of a message
BackendResponses == MutationResponses \ {NetworkFailure}
\* what the user enters as a channel name, as a message with its file, and
\* as the answer to the prompt of handleEditMessage
ChannelNameInputs == {<<" ">>, <<"n">>}
MessageInputs ==
    {[text |-> <<" ">>, file |-> "none"], [text |-> <<"a">>, file |-> "none"],
     [text |-> <<"a">>, file |-> "text/plain"],
     [text |-> <<"a">>, file |-> "image/png"],
     [text |-> <<" ">>, file |-> "image/jpg"]}
MutationEditInputs == {<<"c">>}

\* channel 2, as the list and as GET /channel/:id of either revision has it
SelectedChannel == ChannelOf(2, 2, {1, 2})
SelectedChannelData(rev) ==
    IF rev = 1 THEN SelectedChannel ELSE [SelectedChannel EXCEPT !.id = NoChannel]

InitMutations ==
    /\ pc = "ready"
    /\ revision \in {1, 2}
    /\ ls = LoggedInStore
    /\ screen = "dashboard"
    /\ errorPopup = HiddenPopup
    /\ noticePopup = HiddenPopup
    /\ net = EmptyBag
    /\ allChannels = InitialChannelList
    /\ channelList = renderChannelList(InitialChannelList, 2)
    /\ last = Step("loadChannels.settle", <<"A">>, OkResp)
    /\ currentChannelId = 2
    /\ currentChannelData = SelectedChannelData(revision)
    /\ channelDetails =
           renderChannelDetailsOf(revision, SelectedChannelData(revision), 1)
    /\ messagesView = IF revision = 1
                      THEN renderMessages(MutationMessageList, 2, 1) ELSE <<>>
    /\ inviteModal = ClosedInviteModal
    /\ invitePromises = {}
    /\ createChannelModal = ClosedCreateModal
    /\ channelView = "channel"
    /\ messageInput = EmptyMessageInput
    /\ userOps = 0
    /\ sendListeners = IF revision = 1 THEN 1 ELSE 0
    /\ imageViewer = ClosedImageViewer
    /\ profileModal = ClosedProfileModal

NextMutations ==
    \/ \E channelId \in 2..5 : channelElementClick(channelId)
    \/ \E handler \in {"showCreateChannelModal", "hideCreateChannelModal",
                       "showEditChannelModal"} :
           modalButtonClick(handler, channelDetails.id)
    \/ \E name \in ChannelNameInputs : handleCreateChannel(name)
    \/ \E r \in BagToSet(net), resp \in MutationResponses :
           handleCreateChannelSettle(r, resp, NewChannelId)
    \/ \E r \in BagToSet(net), resp \in MutationResponses :
           handleUpdateChannelSettle(r, resp)
    \/ \E button \in {"join", "leave"} :
           membershipButtonClick(button, channelDetails.id)
    \/ \E r \in BagToSet(net), resp \in MutationResponses :
           handleJoinChannelSettle(r, resp)
    \/ \E r \in BagToSet(net), resp \in MutationResponses :
           handleLeaveChannelSettle(r, resp)
    \/ \E r \in BagToSet(net), resp \in BackendResponses,
          channels \in MutationChannelLists :
           loadChannelsSettle(r, resp, channels)
    \/ \E r \in BagToSet(net), resp \in BackendResponses :
           /\ revision = 1
           /\ r.who = "loadChannelDetails"
           /\ \E body \in MutationChannelBodies(r.args[1]) :
                  loadChannelDetailsSettle(r, resp, body)
    \/ \E r \in BagToSet(net), resp \in BackendResponses :
           /\ r.who = "loadChannelDetails"
           /\ \E body \in MutationChannelBodies(r.args[1]) :
                  loadChannelDetailsSettleR2(r, resp, body)
    \/ \E r \in BagToSet(net), resp \in BackendResponses :
           loadMessagesSettle(r, resp, MutationMessageList)
    \/ \E el \in MessageElements(messagesView), confirmed \in BOOLEAN,
          button \in {"Delete", "Pin", "Unpin", "React", "Unreact"} :
           messageButtonClick(button, el, confirmed)
    \/ \E input \in MessageInputs, readable \in BOOLEAN :
           handleSendMessage(input.text, input.file, readable)
    \/ \E r \in BagToSet(net), resp \in BackendResponses :
           messageMutationSettle(r, resp)
    \/ \E el \in MessageElements(messagesView), newMessage \in MutationEditInputs :
           PageClickable /\ handleEditMessage(el, newMessage)
    \/ \E r \in BagToSet(net), resp \in BackendResponses :
           handleEditMessageSettle(r, resp)

SpecMutations == InitMutations /\ [][NextMutations]_vars

(***************************************************************************)
(* The arrival specification: channel.js after the user has clicked        *)
(* channel 2 and then channel 3 of the sidebar before any answer arrived.  *)
(* Each selectChannel has sent GET /channel/:id and GET /channel; the four *)
(* answers, and those to the requests for messages that follow, arrive in  *)
(* any order.  The tag of a GET /channel is the order in which it was      *)
(* sent.  Every request is answered with 200.                              *)
(***************************************************************************)
\* the list of the sidebar when the user clicks: user 1 is a member of both
ArrivalChannelList == <<ChannelOf(2, 2, {1, 2}), ChannelOf(3, 2, {1, 2})>>
\* the answer to the n-th GET /channel: before the second is handled, user 2
\* has created channel 4
ArrivalAnswer(n) ==
    IF n = 1 THEN ArrivalChannelList
    ELSE Append(ArrivalChannelList, ChannelOf(4, 2, {2}))
\* the answer to GET /channel/:id, without id
ArrivalBody(channelId) == [ChannelOf(channelId, 2, {1, 2}) EXCEPT !.id = NoChannel]
\* the answer to GET /channel/:id/message
ArrivalMessages(channelId) ==
    IF channelId = 2 THEN MutationMessageList
    ELSE <<[id |-> 2, sender |-> 2, message |-> <<"b">>, pinned |-> FALSE,
            reacts |-> {}]>>
\* the n-th loadChannels() of the page
loadChannelsRequestNo(store, n) == [loadChannelsRequest(store) EXCEPT !.tag = n]

InitArrival ==
    /\ pc = "ready"
    /\ revision = 1
    /\ ls = LoggedInStore
    /\ screen = "dashboard"
    /\ errorPopup = HiddenPopup
    /\ noticePopup = HiddenPopup
    /\ allChannels = ArrivalChannelList
    /\ channelList = renderChannelList(ArrivalChannelList, NoChannel)
    /\ currentChannelId = 3
    /\ currentChannelData = NoChannelData
    /\ channelDetails = NoDetails
    /\ messagesView = <<>>
    /\ net = SetToBag(
                 {getChannelDetailsRequest(ls, "loadChannelDetails", c, 0) :
                      c \in {2, 3}} \cup
                 {loadChannelsRequestNo(ls, n) : n \in {1, 2}})
    /\ last = Report("selectChannel", JsNull, NoResp, <<>>, "done", 3, <<>>)
    /\ inviteModal = ClosedInviteModal
    /\ invitePromises = {}
    /\ createChannelModal = ClosedCreateModal
    /\ channelView = "channel"
    /\ messageInput = EmptyMessageInput
    /\ userOps = 2
    /\ sendListeners = 1
    /\ imageViewer = ClosedImageViewer
    /\ profileModal = ClosedProfileModal

NextArrival ==
    \/ \E r \in BagToSet(net) :
           loadChannelDetailsSettle(r, OkResp, ArrivalBody(r.args[1]))
    \/ \E r \in BagToSet(net) :
           loadMessagesSettle(r, OkResp, ArrivalMessages(r.args[1]))
    \/ \E r \in BagToSet(net) :
           loadChannelsSettle(r, OkResp, ArrivalAnswer(r.tag))

SpecArrival == InitArrival /\ [][NextArrival]_vars

(***************************************************************************)
(* The relogin specification: channel.js with user 1 logged in, channel 2  *)
(* selected and its messages rendered.  The user may log out and another   *)
(* user may log in in the same page load, and click the buttons of the     *)
(* message elements and the send button.                                   *)
(***************************************************************************)
InitRelogin ==
    /\ InitMutations
    /\ revision = 1

\* the answers to the login and logout requests
ReloginResponses == {NetworkFailure, OkResp}

NextRelogin ==
    \/ handleLogout
    \/ \E r \in BagToSet(net), resp \in ReloginResponses : handleLogoutSettle(r, resp)
    \/ handleLogin(<<"a">>, <<"p">>)
    \/ \E r \in BagToSet(net), resp \in ReloginResponses : handleLoginSettle(r, resp)
    \/ \E r \in BagToSet(net) : loadChannelsSettle(r, OkResp, InitialChannelList)
    \/ \E el \in MessageElements(messagesView), confirmed \in BOOLEAN :
           messageButtonClick("Delete", el, confirmed)
    \/ \E el \in MessageElements(messagesView), newMessage \in MutationEditInputs :
           handleEditMessage(el, newMessage)
    \/ \E input \in MessageInputs :
           handleSendMessage(input.text, input.file, TRUE)
    \/ \E r \in BagToSet(net), resp \in BackendResponses :
           messageMutationSettle(r, resp)
    \/ \E r \in BagToSet(net), resp \in BackendResponses :
           handleEditMessageSettle(r, resp)
    \/ \E r \in BagToSet(net), resp \in BackendResponses :
           loadMessagesSettle(r, resp, MutationMessageList)

SpecRelogin == InitRelogin /\ [][NextRelogin]_vars

(***************************************************************************)
(* The viewer specification: user 1 has selected channel 2, whose messages *)
(* carry images, and opens, navigates and closes the image viewer.         *)
(***************************************************************************)
\* the images of the rendered messages that the user may click
ViewerImages == {1, 2, 3, 4}
\* the answers to GET /channel/:id/message, newest first: messages with the
\* images 1, 2, 3 and 4, and with one message without image between them
MessageWithImage(id, image) ==
    [id |-> id, sender |-> 1, message |-> <<"a">>, pinned |-> FALSE, reacts |-> {},
     image |-> image]
ViewerMessageLists ==
    {<<MessageWithImage(4, 4), MessageWithImage(3, 3), MessageWithImage(2, 2),
       MessageWithImage(1, 1)>>,
     <<MessageWithImage(3, 3), MessageWithImage(2, NoImage), MessageWithImage(1, 1)>>,
     <<MessageWithImage(4, 4), MessageWithImage(2, 2), MessageWithImage(1, 1)>>}

InitViewer ==
    /\ InitMutations
    /\ revision = 1

NextViewer ==
    \/ \E imageSrc \in ViewerImages : showImageViewer(imageSrc, currentChannelId)
    \/ \E r \in BagToSet(net), resp \in BackendResponses,
          messages \in ViewerMessageLists :
           showImageViewerSettle(r, resp, messages)
    \/ \E step \in {-1, 1} : navButtonClick(step)
    \/ viewerCloseClick

SpecViewer == InitViewer /\ [][NextViewer]_vars

(***************************************************************************)
(* The profile specification: user 1 has selected channel 2 and opens and  *)
(* closes the profiles of the senders of its messages; the modal may also  *)
(* be open while the messages are loaded again.                            *)
(***************************************************************************)
InitProfile ==
    /\ InitMutations
    /\ revision = 1

NextProfile ==
    \/ \E userId \in {1, 2} : showUserProfile(userId)
    \/ \E r \in BagToSet(net), resp \in MutationResponses :
           showUserProfileSettle(r, resp)
    \/ profileCloseClick
    \/ \E el \in MessageElements(messagesView), confirmed \in BOOLEAN :
           messageButtonClick("Delete", el, confirmed)
    \/ \E r \in BagToSet(net), resp \in BackendResponses :
           messageMutationSettle(r, resp)
    \/ \E r \in BagToSet(net), resp \in BackendResponses :
           loadMessagesSettle(r, resp, MutationMessageList)

SpecProfile == InitProfile /\ [][NextProfile]_vars

(***************************************************************************)
(* Properties of the session specification.                                *)
(***************************************************************************)
HasErrorField(resp) == ~resp.failed /\ resp.json /\ resp.error # NoError
SessionStored(store) == KeyToken \in DOMAIN store \/ KeyUserId \in DOMAIN store
LoggedOut == ~SessionStored(ls) /\ screen = "auth"
LogoutPending == \E r \in BagToSet(net) : r.who = "handleLogout"

\* C1: a login answer that carries an error field leaves both localStorage
\* keys as they were, leaves the screen as it was and issues no request
\* (showDashboard does not run), in either revision of handleLogin.
C1_RejectedLoginStoresNothing ==
    [][(last'.op = "handleLogin.settle" /\ HasErrorField(last'.resp))
        => /\ ls' = ls
           /\ screen' = screen
           /\ BagCardinality(net') = BagCardinality(net) - 1]_vars

C1_Witness ==
    /\ last.op = "handleLogin.settle"
    /\ HasErrorField(last.resp)
    /\ errorPopup = showError(last.resp.error)
    /\ screen = "auth"

\* C2: whenever the logout fetch has settled (ok, error payload, unparsable
\* body or network failure) the token and the user id are gone and the auth
\* screen is shown; and, the fetch settling, a pending logout leads to the
\* logged-out state.
C2_LogoutClearsSession ==
    /\ [](last.op = "handleLogout.settle" => LoggedOut)
    /\ (LogoutPending ~> LoggedOut)

C2_Witness ==
    /\ last.op = "handleLogout.settle"
    /\ last.resp.failed
    /\ last.auth \in Tokens
    /\ LoggedOut

\* the backend rejected the token the request carried
TokenRejected(step) ==
    step.auth # JsNull /\ ~step.resp.failed /\ step.resp.status = 403

\* C3: whenever the backend rejects the token of an authenticated request, at
\* startup validation or on a request made through apiCall, the token and the
\* user id are removed from localStorage.
C3_AuthFailureClearsSession ==
    (last.op \in {"init.settle", "loadChannels.settle"} /\ TokenRejected(last))
        => ~SessionStored(ls)

C4_WitnessOk ==
    /\ last.op = "init.settle"
    /\ ResponseOk(last.resp)
    /\ screen = "dashboard"

\* C5: a register submit whose password and confirmation differ issues no
\* request, shows an error, leaves localStorage and the screen as they were.
\* (last.data of a handleRegister step is <<password, confirmPassword>>.)
C5_MismatchNeverReachesNetwork ==
    [][(last'.op = "handleRegister" /\ last'.data[1] # last'.data[2])
        => /\ net' = net
           /\ errorPopup'.shown
           /\ errorPopup'.text # NoError
           /\ ls' = ls
           /\ screen' = screen]_vars

C5_Witness ==
    /\ last.op = "handleRegister"
    /\ last.data = <<(<<"p">>), (<<"q">>)>>
    /\ errorPopup = showError("Passwords do not match!")
    /\ net = EmptyBag
    /\ screen = "auth"

\* C10: after an apiCall has settled on an answer whose JSON body has an error
\* field (2xx or not), the error popup shows exactly that error string and the
\* promise is rejected (the caller's then callback has not run).
C10_ApplicationErrorsVerbatim ==
    (last.op = "loadChannels.settle" /\ HasErrorField(last.resp))
        => /\ errorPopup = showError(last.resp.error)
           /\ apiCall(last.resp).rejected

\* the messages a transport failure is reported with: the one of apiCall and
\* the ones of the catch callbacks of handleLogin and handleRegister
GenericFailureTexts ==
    {NetworkErrorText, "Failed to login. Please try again.",
     "Failed to register. Please try again."}

\* C11: when the request of a login, of a register or of an apiCall-based
\* operation fails on the network, the step that handles the failure leaves
\* the error popup shown with a generic failure message and leaves
\* localStorage as it was.
C11_NetworkFailureSurfaced ==
    [][(/\ last'.op \in {"handleLogin.settle", "handleRegister.settle",
                         "loadChannels.settle"}
        /\ last'.resp.failed)
        => /\ errorPopup'.shown
           /\ errorPopup'.text \in GenericFailureTexts
           /\ ls' = ls]_vars

\* the requests of apiCall the step issues
IssuedApiCalls ==
    {r \in BagToSet(net') :
        /\ r.who = "loadChannels"
        /\ CopiesIn(r, net') > CopiesIn(r, net)}
\* the Authorization token apiCall is to send for a store (JsNull: no header)
BearerOf(store) ==
    IF isValidToken(getItem(store, KeyToken)) THEN getItem(store, KeyToken)
    ELSE JsNull

\* C16: getToken never returns 'null', 'undefined' or a blank string; a
\* request apiCall issues carries the token stored when it is issued if that
\* token is valid and no Authorization header otherwise; and without
\* requireAuth no header is attached.
C16_BearerTokenAttached ==
    /\ [](/\ getToken(ls) \notin {StrNull, StrUndefined, <<>>}
          /\ (getToken(ls) # JsNull => Trim(getToken(ls)) # <<>>)
          /\ apiRequest(ls, "apiCall", "GET", "/channel", FALSE).auth = JsNull
          /\ apiRequest(ls, "apiCall", "GET", "/channel", TRUE).auth = BearerOf(ls))
    /\ [][\A r \in IssuedApiCalls : r.auth = BearerOf(ls')]_vars

\* a login stored token B and loadChannels sent it
C16_Witness ==
    /\ getItem(ls, KeyToken) = <<"B">>
    /\ \E r \in BagToSet(net) : r.who = "loadChannels" /\ r.auth = <<"B">>

\* a login answer without a token field stored 'undefined': loadChannels is
\* sent without the header
C16_WitnessNoHeader ==
    /\ getItem(ls, KeyToken) = StrUndefined
    /\ \E r \in BagToSet(net) : r.who = "loadChannels" /\ r.auth = JsNull

(***************************************************************************)
(* Properties of the message list specification.                           *)
(***************************************************************************)
EditRejections ==
    {"Message cannot be empty",
     "Message must be different from the existing message"}

\* C6: editing a message with content identical to its existing content is
\* rejected locally: whenever handleEditMessage runs with the message's own
\* content as the new content, it shows an error and issues no request.
\* (last.data of such a step is <<msg.message, newMessage>>.)
C6_IdenticalEditRejectedLocally ==
    [][(last'.op = "handleEditMessage" /\ last'.data[2] = last'.data[1])
        => /\ net' = net
           /\ errorPopup'.shown
           /\ errorPopup'.text \in EditRejections]_vars

\* the case of C6 the code handles: a trimmed content submitted unchanged
C6_RejectedWitness ==
    /\ last.op = "handleEditMessage"
    /\ last.data = <<(<<"a">>), (<<"a">>)>>
    /\ errorPopup = showError("Message must be different from the existing message")
    /\ net = EmptyBag

\* how often message id is rendered inside a pinned section / as a child of
\* the container itself
PinnedOccurrences(view, id) ==
    Cardinality({<<i, k>> \in (DOMAIN view) \X (1..Cardinality(MessageIds)) :
        /\ view[i].kind = "pinned-messages-section"
        /\ k \in DOMAIN view[i].children
        /\ view[i].children[k].msg.id = id})
RegularOccurrences(view, id) ==
    Cardinality({i \in DOMAIN view :
        view[i].kind = "message-container" /\ view[i].msg.id = id})
PinnedCount(messages) == Cardinality({i \in DOMAIN messages : messages[i].pinned})
Rendered(step) == step.op = "loadMessages.settle" /\ ~apiCall(step.resp).rejected

\* C9: after renderMessages(messages) every pinned message is rendered once
\* in the pinned section and nowhere else, every other message once in the
\* regular section and nowhere else, and the header of the pinned section
\* counts the pinned messages.  (last.data of a rendering step is the list
\* rendered.)
C9_PinnedPartition ==
    Rendered(last) =>
        /\ \A i \in DOMAIN last.data :
               LET m == last.data[i]
               IN  /\ PinnedOccurrences(messagesView, m.id) = (IF m.pinned THEN 1 ELSE 0)
                   /\ RegularOccurrences(messagesView, m.id) = (IF m.pinned THEN 0 ELSE 1)
        /\ \A i \in DOMAIN messagesView :
               messagesView[i].kind = "pinned-messages-section"
                   => /\ messagesView[i].count = PinnedCount(last.data)
                      /\ Len(messagesView[i].children) = PinnedCount(last.data)
        /\ PinnedCount(last.data) > 0
               => \E i \in DOMAIN messagesView :
                      messagesView[i].kind = "pinned-messages-section"

C9_Witness ==
    /\ Rendered(last)
    /\ Len(last.data) = 3
    /\ PinnedCount(last.data) = 2
    /\ messagesView[1].kind = "pinned-messages-section"
    /\ messagesView[1].count = 2
    /\ Len(messagesView) = 3

\* the ids of the messages rendered in #messages-container, in document order
RECURSIVE FlatIds(_)
FlatIds(view) ==
    IF view = <<>> THEN <<>>
    ELSE (IF Head(view).kind = "pinned-messages-section"
          THEN [k \in 1..Len(Head(view).children) |-> Head(view).children[k].msg.id]
          ELSE IF Head(view).kind = "message-container"
          THEN <<Head(view).msg.id>>
          ELSE <<>>)
         \o FlatIds(Tail(view))
\* the place of message id in the list the backend returned
PlaceOf(messages, id) == CHOOSE i \in DOMAIN messages : messages[i].id = id

\* C17: after renderMessages(messages) every message is in the container,
\* every pinned message precedes every unpinned one, and two messages of
\* the same section appear in the reverse of the order the backend returned
\* them in.  (last.data of a rendering step is the list rendered.)
C17_PinnedFirstOldestFirst ==
    Rendered(last) =>
        LET ids == FlatIds(messagesView)
            at(k) == last.data[PlaceOf(last.data, ids[k])]
        IN  /\ Len(ids) = Len(last.data)
            /\ \A i \in DOMAIN last.data : \E k \in DOMAIN ids : ids[k] = last.data[i].id
            /\ \A a, b \in DOMAIN ids :
                   a < b => /\ at(b).pinned => at(a).pinned
                            /\ at(a).pinned = at(b).pinned
                                   => PlaceOf(last.data, ids[a]) > PlaceOf(last.data, ids[b])

\* the backend returned 3 (pinned), 2, 1 (pinned): 1 and 3 are rendered in
\* the pinned section, then 2
C17_Witness ==
    /\ Rendered(last)
    /\ [i \in DOMAIN last.data |-> <<last.data[i].id, last.data[i].pinned>>]
           = <<(<<3, TRUE>>), (<<2, FALSE>>), (<<1, TRUE>>)>>
    /\ FlatIds(messagesView) = <<1, 3, 2>>

(***************************************************************************)
(* Properties of the channel list specification.                           *)
(***************************************************************************)
ChannelElements(list, id) ==
    {i \in DOMAIN list : list[i].kind = "channel-container" /\ list[i].id = id}
Headers(list, text) ==
    {i \in DOMAIN list : list[i].kind = "channel-section-header" /\ list[i].text = text}
ListRendered(step) == step.op = "loadChannels.settle" /\ ~apiCall(step.resp).rejected

\* C8: after renderChannelList(channels) every channel is rendered exactly
\* once, after the "Private Channels" header iff it is private and otherwise
\* between the two headers; each header is rendered iff its group has a
\* channel, the public one first; the empty-list message is rendered iff
\* the list is empty.
C8_ChannelPartition ==
    ListRendered(last) =>
        LET public == Headers(channelList, "Public Channels")
            private == Headers(channelList, "Private Channels")
        IN  /\ \A n \in DOMAIN allChannels :
                   LET ch == allChannels[n]
                       at == ChannelElements(channelList, ch.id)
                   IN  /\ Cardinality(at) = 1
                       /\ \A i \in at :
                              /\ channelList[i].lock = ch.private
                              /\ ch.private => \E h \in private : h < i
                              /\ ~ch.private => /\ \E h \in public : h < i
                                                /\ \A h \in private : i < h
            /\ \A i \in DOMAIN channelList :
                   channelList[i].kind = "channel-container"
                       => \E n \in DOMAIN allChannels :
                              allChannels[n].id = channelList[i].id
            /\ Cardinality(public) =
                   (IF \E n \in DOMAIN allChannels : ~allChannels[n].private
                    THEN 1 ELSE 0)
            /\ Cardinality(private) =
                   (IF \E n \in DOMAIN allChannels : allChannels[n].private
                    THEN 1 ELSE 0)
            /\ \A h \in public, g \in private : h < g
            /\ (\E i \in DOMAIN channelList : channelList[i].kind = "empty-message")
                   <=> Len(allChannels) = 0

\* the example of the specification: general public, secret private
C8_Witness ==
    /\ ListRendered(last)
    /\ allChannels = <<Channel(2, TRUE), Channel(1, FALSE)>>
    /\ Len(channelList) = 4
    /\ channelList[1] = channelSectionHeader("Public Channels")
    /\ channelList[2].id = 1
    /\ channelList[3] = channelSectionHeader("Private Channels")
    /\ channelList[4].id = 2

(***************************************************************************)
(* Properties of the invite specification.                                 *)
(***************************************************************************)
\* the invite requests in flight for user u
InvitesFor(pending, u) ==
    BagCardinality([q \in {x \in BagToSet(pending) :
                              x.who = "inviteUserToChannel" /\ x.args[2] = u}
                       |-> pending[q]])
\* the checked boxes of the list that name user u
CheckedFor(modal, u) ==
    Cardinality({i \in DOMAIN checkedUserIds(modal.items) :
                    checkedUserIds(modal.items)[i] = u})
SuccessReported ==
    \/ noticePopup' # noticePopup
    \/ inviteModal' # inviteModal
    \/ BagCardinality(net') > BagCardinality(net)

\* a click on submit with N boxes checked issues N requests, one per box
SubmitIssuesOnePerUser ==
    (last'.op = "submitHandler" /\ Len(checkedUserIds(inviteModal.items)) > 0)
        => /\ BagCardinality(net') =
                  BagCardinality(net) + Len(checkedUserIds(inviteModal.items))
           /\ \A u \in 1..Len(BackendUsers) :
                  InvitesFor(net', u) = InvitesFor(net, u) + CheckedFor(inviteModal, u)

\* success is reported only by the answer that resolves the last request of
\* a submit none of whose requests failed (last.data of an answer is what
\* the Promise.all did, the failures it has seen and whether it awaits more)
SuccessOnlyIfAllResolve ==
    (last'.op = "inviteUserToChannel.settle" /\ SuccessReported)
        => /\ ~apiCall(last'.resp).rejected
           /\ last'.data = <<"success", 0, 0>>
           /\ noticePopup'.shown
           /\ ~inviteModal'.shown

\* a failing request surfaces its error and reports no success
FailureSurfacesError ==
    (last'.op = "inviteUserToChannel.settle" /\ apiCall(last'.resp).rejected)
        => /\ errorPopup'.shown
           /\ errorPopup'.text # ""
           /\ ~SuccessReported

\* C7: submitting the invite modal with N selected users issues exactly N
\* invite requests, one per selected user; success (notice, modal closed,
\* reload) is reported only if all N resolve; a failing request surfaces an
\* error and reports no success, in every order of the answers.
C7_InviteAllOrNothing ==
    [][SubmitIssuesOnePerUser /\ SuccessOnlyIfAllResolve /\ FailureSurfacesError]_vars

\* the part of C7 that is about Promise.all
InvitePromiseAll == [][SuccessOnlyIfAllResolve /\ FailureSurfacesError]_vars
(***************************************************************************)
(* Properties of the mutation specification.                               *)
(***************************************************************************)
\* the steps in which an operation of the user fails: the settle steps of
\* the mutations, whose promise may reject, and handleSendMessage, whose
\* image conversion may reject
FailureReportingSteps ==
    {"createChannel.settle", "updateChannel.settle", "joinChannel.settle",
     "leaveChannel.settle", "handleSendMessage", "handleSendMessage.settle",
     "handleDeleteMessage.settle", "handlePinMessage.settle",
     "handleReact.settle", "handleUnreact.settle", "handleEditMessage.settle"}

\* C12: every failed operation is reported exactly once: a step in which an
\* operation fails (its request is answered with an error, or its image
\* conversion rejects) calls showError exactly once
C12_FailureReportedOnce ==
    [][(/\ last'.op \in FailureReportingSteps
        /\ last'.data[2] \in {"failed", "rejected"})
        => last'.data[1] = 1]_vars

\* C13: validation failures never reach the network layer: a submit of the
\* create or edit channel form with a blank name, and a send with a blank
\* text and no file, shows the error popup and issues no request
C13_ValidationBeforeDispatch ==
    [][(/\ last'.op \in {"handleCreateChannel", "showEditChannelModal.submit",
                         "handleSendMessage"}
        /\ Trim(last'.data[4]) = <<>>
        /\ last'.op = "handleSendMessage" => messageInput'.file = "none")
        => /\ last'.data[2] = "invalid"
           /\ errorPopup'.shown
           /\ net' = net]_vars

\* the settle steps of the message mutations and of the channel mutations
MessageMutationSteps ==
    {"handleSendMessage.settle", "handleEditMessage.settle",
     "handleDeleteMessage.settle", "handlePinMessage.settle",
     "handleReact.settle", "handleUnreact.settle"}
ChannelMutationSteps ==
    {"createChannel.settle", "updateChannel.settle", "joinChannel.settle",
     "leaveChannel.settle"}
\* the step sends one more copy of the request
Sends(request) == CopiesIn(request, net') > CopiesIn(request, net)

C15_FailedMutationLeavesState ==
    [][(/\ last'.op \in ChannelMutationSteps
        /\ last'.data[2] = "failed")
        => /\ currentChannelId' = currentChannelId
           /\ currentChannelData' = currentChannelData
           /\ allChannels' = allChannels
           /\ createChannelModal' = createChannelModal
           /\ channelList' = channelList
           /\ channelDetails' = channelDetails
           /\ channelView' = channelView
           /\ \A q \in BagToSet(net') : CopiesIn(q, net') <= CopiesIn(q, net)]_vars

\* an update of channel 2 has failed: the modal is still open in edit mode
\* for channel 2, the error is shown and nothing is in flight
C15_Witness ==
    /\ revision = 1
    /\ last.op = "updateChannel.settle"
    /\ last.data[2] = "failed"
    /\ createChannelModal.shown
    /\ createChannelModal.isEditMode
    /\ createChannelModal.editingChannelId = 2
    /\ currentChannelId = 2
    /\ errorPopup.shown
    /\ net = EmptyBag

\* C18: after a create has succeeded with channel id c, the client selects
\* the new channel: the step sets currentChannelId to c, calls showError for
\* nothing (no 'Channel not found') and renders the details of c or sends
\* the request for them
C18_CreatedChannelSelected ==
    [][(/\ last'.op = "createChannel.settle"
        /\ last'.data[2] = "done")
        => /\ currentChannelId' = last'.data[3]
           /\ last'.data[1] = 0
           /\ errorPopup' = errorPopup
           /\ \/ channelDetails'.id = last'.data[3]
              \/ Sends(getChannelDetailsRequest(ls, "loadChannelDetails",
                                                last'.data[3], 0))]_vars

\* C19: after a join of channel c has succeeded, the details are reloaded
\* for a member: the step sends the request for the details of c (whose
\* answer renders the member actions and loads the messages) and does not
\* render the Join button again
C19_JoinedChannelReloaded ==
    [][(/\ last'.op = "joinChannel.settle"
        /\ last'.data[2] = "done")
        => /\ Sends(getChannelDetailsRequest(ls, "loadChannelDetails",
                                             last'.data[3], 0))
           /\ last'.data[1] = 0
           /\ channelDetails' = channelDetails]_vars

\* C20: after an update of the channel being edited (id c) has succeeded,
\* the modal is hidden and the details of c are reloaded: the step sends the
\* request for the details of c and calls showError for nothing (no
\* 'Channel not found')
C20_UpdatedChannelReloaded ==
    [][(/\ last'.op = "updateChannel.settle"
        /\ last'.data[2] = "done")
        => /\ ~createChannelModal'.shown
           /\ Sends(getChannelDetailsRequest(ls, "loadChannelDetails",
                                             last'.data[3], 0))
           /\ last'.data[1] = 0
           /\ errorPopup' = errorPopup]_vars



(***************************************************************************)
(* Properties of the two localStorage keys (session specification).        *)
(***************************************************************************)
\* both keys of the session are present, or neither is
Paired(store) == (KeyToken \in DOMAIN store) <=> (KeyUserId \in DOMAIN store)

LoadsDetails(step) ==
    /\ revision = 1
    /\ step.op \in {"selectChannel", "createChannel.settle", "joinChannel.settle"}
    /\ step.data[2] = "done"
\* the entries of allChannels with this id
EntriesOf(channels, channelId) ==
    {i \in DOMAIN channels : channels[i].id = channelId}
\* how many requests for details or messages are in flight
DetailRequests(pending) ==
    LET rs == {r \in BagToSet(pending) :
                   r.who \in {"loadChannelDetails", "loadMessages"}}
    IN  BagCardinality([r \in rs |-> CopiesIn(r, pending)])

\* C28: loadChannelDetails(c) of channel.js sends the request for the
\* details of c (whose answer asks for the messages) only when the logged-in
\* user id is in the member list of the entry of c in allChannels.  For an
\* entry without the user no request for details or messages is sent, the
\* entry of allChannels becomes currentChannelData and is rendered with a
\* Join button, and the message container is emptied.  For an id that is not
\* in allChannels 'Channel not found' is shown and currentChannelData, the
\* details and the message container stay as they were.
C28_DetailsOnlyForMembers ==
    [][LoadsDetails(last') =>
        LET c == last'.data[3]
            found == EntriesOf(allChannels, c)
            entry == allChannels[CHOOSE i \in found : \A j \in found : i <= j]
            asked == getChannelDetailsRequest(ls, "loadChannelDetails", c, 0)
        IN  IF found = {}
            THEN /\ errorPopup' = showError("Channel not found")
                 /\ DetailRequests(net') = DetailRequests(net)
                 /\ UNCHANGED <<currentChannelData, channelDetails, messagesView>>
            ELSE IF getUserId(ls) \in entry.members
            THEN /\ CopiesIn(asked, net') = CopiesIn(asked, net) + 1
                 /\ DetailRequests(net') = DetailRequests(net) + 1
                 /\ UNCHANGED <<currentChannelData, channelDetails, messagesView>>
            ELSE /\ DetailRequests(net') = DetailRequests(net)
                 /\ currentChannelData' = entry
                 /\ channelDetails'.id = c
                 /\ channelDetails'.buttons = {"join"}
                 /\ messagesView' = <<>>]_vars

C28_Witness ==
    /\ revision = 1
    /\ last.op = "selectChannel"
    /\ last.data[3] = 3
    /\ getUserId(ls) \notin currentChannelData.members
    /\ currentChannelData.id = 3
    /\ channelDetails.buttons = {"join"}
    /\ messagesView = <<>>
    /\ \A r \in BagToSet(net) : r.who = "loadChannels"

(***************************************************************************)
(* Properties of the create/edit modal of channel.js.                      *)
(***************************************************************************)
EditFlagsReset(modal) == ~modal.isEditMode /\ modal.editingChannelId = NoChannel
\* the requests that a step adds to those in flight
Added(before, after) ==
    {r \in BagToSet(after) : CopiesIn(r, after) > CopiesIn(r, before)}

\* C29: in channel.js isEditMode is true exactly when editingChannelId is not
\* null, and both are reset while the modal is hidden
C29_FlagsAgree ==
    revision = 1 =>
        /\ createChannelModal.isEditMode
               <=> createChannelModal.editingChannelId # NoChannel
        /\ ~createChannelModal.shown => EditFlagsReset(createChannelModal)

\* C29: opening the modal through Create Channel resets both flags; a submit
\* in edit mode sends only the PUT for editingChannelId, a submit outside
\* edit mode sends only the POST that creates a channel
C29_SubmitFollowsFlags ==
    [][revision = 1 =>
        /\ last'.op = "showCreateChannelModal"
               => createChannelModal'.shown /\ EditFlagsReset(createChannelModal')
        /\ (last'.op = "handleCreateChannel" /\ last'.data[2] = "issued")
               => /\ BagCardinality(net') = BagCardinality(net) + 1
                  /\ \A r \in Added(net, net') :
                         IF createChannelModal.isEditMode
                         THEN /\ r.who = "updateChannel"
                              /\ r.method = "PUT"
                              /\ r.args[1] = createChannelModal.editingChannelId
                         ELSE /\ r.who = "createChannel"
                              /\ r.method = "POST"]_vars

\* C29: the two flags of the create/edit modal agree in every reachable
\* state, are reset whenever the modal is hidden or opened through Create,
\* and decide which single request a submit sends.
C29_EditModeConsistent == []C29_FlagsAgree /\ C29_SubmitFollowsFlags

C29_Witness ==
    /\ revision = 1
    /\ last.op = "handleCreateChannel"
    /\ last.data[2] = "issued"
    /\ createChannelModal.shown
    /\ createChannelModal.isEditMode
    /\ createChannelModal.editingChannelId = 2
    /\ \E r \in BagToSet(net) : r.who = "updateChannel" /\ r.args[1] = 2
C21_RenderedChannelIsCurrent ==
    net = EmptyBag =>
        /\ currentChannelData # NoChannelData
               => /\ currentChannelData.id = currentChannelId
                  /\ channelDetails.id = currentChannelId
        /\ \A el \in MessageElements(messagesView) : el.channelId = currentChannelId

\* C22: once every answer to GET /channel has arrived, allChannels and the
\* sidebar are the answer to the GET /channel that was sent last.
C22_LatestListWins ==
    (\A r \in BagToSet(net) : r.who # "loadChannels") =>
        /\ allChannels = ArrivalAnswer(2)
        /\ channelList = renderChannelList(ArrivalAnswer(2), currentChannelId)

(***************************************************************************)
(* Properties of the relogin specification.                                *)
(***************************************************************************)
\* C25: a request that edits or deletes a message is only sent for a message
\* whose sender is the user who is logged in when the button is clicked,
\* also after a logout and a login as another user.
C25_OnlyOwnMessages ==
    [][\A r \in Added(net, net') :
           r.who \in {"handleDeleteMessage", "handleEditMessage"}
               => \A el \in MessageElements(messagesView) :
                      el.msg.id = r.args[2] => el.msg.sender = getUserId(ls)]_vars

\* C23: one click on the send button (or one Enter in the message input)
\* that passes the validation sends exactly one request, however often the
\* dashboard has been shown in the page load.
C23_OneRequestPerClick ==
    [][(last'.op = "handleSendMessage" /\ last'.data[2] = "issued")
           => BagCardinality(net') = BagCardinality(net) + 1]_vars

(***************************************************************************)
(* Properties of the viewer specification.                                 *)
(***************************************************************************)
\* C24: one click on Next moves currentImageIndex forward by exactly one,
\* one click on Previous moves it back by exactly one (the buttons are only
\* displayed when there is an image to move to), and while the viewer shows
\* an image the index is within 0..channelImages.length-1.
C24_OneImagePerClick ==
    [][/\ last'.op = "nextHandler" => imageViewer'.index = imageViewer.index + 1
       /\ last'.op = "prevHandler" => imageViewer'.index = imageViewer.index - 1
       /\ (imageViewer'.shown /\ imageViewer'.images # <<>>)
              => imageViewer'.index \in 0..(Len(imageViewer'.images) - 1)]_vars

(***************************************************************************)
(* Properties of the profile specification.                                *)
(***************************************************************************)
\* C26: while the profile modal is hidden, by whichever path it became
\* hidden (close button, click outside, failure to load the profile), no
\* handler of an earlier opening is attached to it, and the handlers of at
\* most one opening are attached at any time.
C26_ListenersPaired ==
    /\ ~profileModal.shown => profileModal.listeners = 0
    /\ profileModal.listeners <= 1

====
